---------------------------- MODULE Spec2Model ----------------------------
(***************************************************************************)
(* AfterImage: the evidence-grounding pipeline.                            *)
(*                                                                         *)
(* One question travels from the page (handleAsk / askQuestion) to one of  *)
(* the two edge functions (ask-doc, ask-openAI), through the first,        *)
(* non-strict model call, the verification of the quotes, the strict       *)
(* retry, and back to the page.                                            *)
(*                                                                         *)
(* Strings are sequences of chunks (a chunk is one character, or a fixed   *)
(* piece of a message); JavaScript values are tagged records, so that a    *)
(* null item, a missing field or a quote that is a number can be told      *)
(* apart the way the code tells them apart.                                *)
(***************************************************************************)
EXTENDS Integers, Sequences, FiniteSets, TLC

(***************************************************************************)
(* Bounds of the model.                                                    *)
(***************************************************************************)
\* the longest evidence_for array the model may return
MaxItems == 2
\* the longest page text given to verifyQuote, in characters
MaxText == 3
\* the longest quote given to verifyQuote that is not built from the page text
MaxQuote == 2
\* the longest evidence list given to filterEvidence
MaxList == 3
\* the longest answer string of the objects given to extractJson as JSON text
MaxAnswer == 2
\* the longest model output given to looksLikeTruncatedJson, in characters
MaxOutput == 4
\* the number of files the user chooses
MaxFiles == 2
\* the most animation-frame callbacks of handleAsk pending when a question is
\* asked
MaxFrames == 1

\* the spans of a text layer
MaxSpans == 3
\* the spans of a text layer given to buildHighlightForQuote with its geometry
MaxLayer == 2

(***************************************************************************)
(* Strings.                                                                *)
(***************************************************************************)
\* the characters that the regular expression \s matches
Whitespace == {" ", "\t", "\n", "\r"}

Range(s) == {s[i] : i \in 1..Len(s)}

RECURSIVE SkipWhitespace(_)
\* the rest of s after its leading run of whitespace
SkipWhitespace(s) ==
    IF s = <<>> THEN <<>>
    ELSE IF Head(s) \in Whitespace THEN SkipWhitespace(Tail(s))
    ELSE s

\* CollapseWhitespace with /\s/g for /\s+/g: every whitespace character becomes
\* a space of its own
CollapseWhitespace_EachCharacter(s) ==
    [i \in 1..Len(s) |-> IF s[i] \in Whitespace THEN " " ELSE s[i]]

RECURSIVE CollapseWhitespace(_)
\* s.replace(/\s+/g, " ")
CollapseWhitespace(s) ==
    IF s = <<>> THEN <<>>
    ELSE IF Head(s) \in Whitespace
         THEN <<" ">> \o CollapseWhitespace(SkipWhitespace(s))
         ELSE <<Head(s)>> \o CollapseWhitespace(Tail(s))

RECURSIVE DropTrailingWhitespace(_)
DropTrailingWhitespace(s) ==
    IF s = <<>> THEN <<>>
    ELSE IF s[Len(s)] \in Whitespace
         THEN DropTrailingWhitespace(SubSeq(s, 1, Len(s) - 1))
         ELSE s

\* String.prototype.trim
Trim(s) == DropTrailingWhitespace(SkipWhitespace(s))

\* String.prototype.includes
Includes(text, part) ==
    \E i \in 0..(Len(text) - Len(part)) : SubSeq(text, i + 1, i + Len(part)) = part

\* normalizeWhitespace without .trim()
normalizeWhitespace_NoTrim(s) == CollapseWhitespace(s)

normalizeWhitespace(s) == Trim(CollapseWhitespace(s))

(***************************************************************************)
(* JavaScript values.                                                      *)
(***************************************************************************)
Undef == [t |-> "undefined"]
Null == [t |-> "null"]
Num(n) == [t |-> "number", v |-> n]
Str(s) == [t |-> "string", v |-> s]
Arr(a) == [t |-> "array", v |-> a]
Obj(f) == [t |-> "object", v |-> f]

IsString(x) == x.t = "string"
IsNumber(x) == x.t = "number"
IsArray(x) == x.t = "array"
\* x is null or undefined: reading a property of x throws a TypeError
IsNullish(x) == x.t \in {"null", "undefined"}
\* the property f of x, undefined when x is no object or has no such property
Get(x, f) == IF x.t = "object" /\ f \in DOMAIN x.v THEN x.v[f] ELSE Undef

\* an exception of the given class
Exception(name, message) == [name |-> name, message |-> message]
\* `${err}`
ErrToString(e) == <<e.name, ": ">> \o e.message

TypeErrorOf(what) == Exception("TypeError", <<"Cannot read properties of ", what>>)


(***************************************************************************)
(* Completions: what a call ends with.                                     *)
(***************************************************************************)
Return(v) == [threw |-> FALSE, value |-> v]
Throw(e) == [threw |-> TRUE, err |-> e]

(***************************************************************************)
(* Quote Verifier and Evidence Filter.                                     *)
(***************************************************************************)
\* pages.find((p) => p.page === page): the index of the first entry with that
\* page number, 0 when there is none. pages is the request's array, each entry
\* with a numeric page; === is false for a page that is no number.
FindPage(pages, page) ==
    LET Hit(i) == IsNumber(page) /\ Get(pages.v[i], "page") = page
    IN  IF \E i \in 1..Len(pages.v) : Hit(i)
        THEN CHOOSE i \in 1..Len(pages.v) : Hit(i) /\ \A j \in 1..(i - 1) : ~Hit(j)
        ELSE 0

\* verifyQuote reaches quote.replace(...) with a quote that has no such method
verifyQuoteThrows(pages, page, quote) ==
    FindPage(pages, page) # 0 /\ ~IsString(quote)

\* the boolean verifyQuote returns (when it does not throw)
verifyQuote(pages, page, quote) ==
    /\ FindPage(pages, page) # 0
    /\ IsString(quote)
    /\ Includes(normalizeWhitespace(Get(pages.v[FindPage(pages, page)], "text").v),
                normalizeWhitespace(quote.v))

\* ask-doc: the callback of items.filter, applied to one item
\*   (item) => verifyQuote(pages, item.page, item.quote)
DocItemThrows(item, pages) ==
    \/ IsNullish(item)
    \/ verifyQuoteThrows(pages, Get(item, "page"), Get(item, "quote"))

DocItemKept(item, pages) ==
    /\ ~IsNullish(item)
    /\ verifyQuote(pages, Get(item, "page"), Get(item, "quote"))

\* the first index at which pred throws, 0 when none does
FirstIndex(n, Bad(_)) ==
    IF \E i \in 1..n : Bad(i)
    THEN CHOOSE i \in 1..n : Bad(i) /\ \A j \in 1..(i - 1) : ~Bad(j)
    ELSE 0

\* ask-doc filterEvidence(items, pages); items is whatever value the caller
\* passes, so a value without a filter method throws
filterEvidence(items, pages) ==
    IF ~IsArray(items)
    THEN Throw(Exception("TypeError", <<"items.filter is not a function">>))
    ELSE LET Bad(i) == DocItemThrows(items.v[i], pages)
             Keep(item) == DocItemKept(item, pages)
             bad == FirstIndex(Len(items.v), Bad)
         IN  IF bad # 0
             THEN Throw(IF IsNullish(items.v[bad])
                        THEN TypeErrorOf(items.v[bad].t)
                        ELSE Exception("TypeError", <<"quote.replace is not a function">>))
             ELSE Return(Arr(SelectSeq(items.v, Keep)))

\* ask-openAI: the longest quote isEvidenceItem lets through
QuoteMaxLength == 180

\* ask-openAI isEvidenceItem(item), for an item that is not null or undefined
isEvidenceItem(item) ==
    /\ IsNumber(Get(item, "page"))
    /\ Get(item, "page").v > 0
    /\ IsString(Get(item, "quote"))
    /\ Len(Get(item, "quote").v) > 0
    /\ Len(Get(item, "quote").v) <= QuoteMaxLength
    /\ IsString(Get(item, "note"))

OpenAIItemKept(item, pages) ==
    /\ ~IsNullish(item)
    /\ isEvidenceItem(item)
    /\ verifyQuote(pages, Get(item, "page"), Get(item, "quote"))

\* Slice0 as items.slice(1, n)
Slice0_FromOne(s, n) == SubSeq(s, 2, IF n < Len(s) THEN n ELSE Len(s))

\* items.slice(0, n)
Slice0(s, n) == SubSeq(s, 1, IF n < Len(s) THEN n ELSE Len(s))

\* ask-openAI filterEvidence(items, pages, maxEvidence)
filterEvidenceOpenAI(items, pages, maxEvidence) ==
    IF ~IsArray(items)
    THEN Throw(Exception("TypeError", <<"items.filter is not a function">>))
    ELSE LET Bad(i) == IsNullish(items.v[i])
             Keep(item) == OpenAIItemKept(item, pages)
             bad == FirstIndex(Len(items.v), Bad)
         IN  IF bad # 0
             THEN Throw(TypeErrorOf(items.v[bad].t))
             ELSE Return(Arr(Slice0(SelectSeq(items.v, Keep), maxEvidence)))

(***************************************************************************)
(* The document of the session and what the model may answer.              *)
(***************************************************************************)
Page(n, text) == Obj([page |-> Num(n), text |-> Str(text)])

\* the extracted page texts: page 1 reads "a  b" (two spaces), page 2 reads "b"
PagesText == Arr(<<Page(1, <<"a", " ", " ", "b">>), Page(2, <<"b">>)>>)

Question == Str(<<"q">>)

Item(page, quote, note) == Obj([page |-> page, quote |-> quote, note |-> note])

Note == Str(<<"n">>)
\* on page 1 once whitespace is collapsed
ItemGood == Item(Num(1), Str(<<"a", "\n", "b">>), Note)
\* a quote of page 1 attributed to page 2
ItemBad == Item(Num(2), Str(<<"a", " ", "b">>), Note)
\* no page at all
ItemNoPage == Obj([quote |-> Str(<<"b">>), note |-> Note])
\* a quote that is not a string, on a page that exists
ItemNumQuote == Item(Num(1), Num(5), Note)
\* an empty quote
ItemEmptyQuote == Item(Num(1), Str(<<>>), Note)

ForItems == {ItemGood, ItemBad, ItemNoPage, ItemNumQuote, ItemEmptyQuote, Null}

\* the arrays of at most n evidence items
EvidenceLists(n) == UNION {[1..k -> ForItems] : k \in 0..n}

\* what the model may put in evidence_against
AgainstValues ==
    {Undef, Null, Str(<<"none">>), Arr(<<>>), Arr(<<ItemGood>>), Arr(<<ItemBad>>),
     Arr(<<Null>>)}

Confidences == {Str(<<"high">>), Str(<<"High">>), Str(<<"sure">>), Undef}
MissingInfos == {Arr(<<>>), Arr(<<Str(<<"dose">>)>>), Null, Str(<<"none">>)}

Answer(for, against, confidence, missing) ==
    Obj([answer |-> Str(<<"yes">>), reasoning |-> Str(<<"because">>),
         confidence |-> confidence, evidence_for |-> for,
         evidence_against |-> against, missing_info |-> missing])

\* parsed outputs that pass the shape validation of callGemini
ShapedValues ==
    {Answer(Arr(f), a, Str(<<"high">>), Arr(<<>>)) :
        f \in EvidenceLists(MaxItems), a \in AgainstValues}
    \cup {Answer(Arr(<<ItemGood>>), Arr(<<>>), c, m) :
        c \in Confidences, m \in MissingInfos}

\* parsed outputs that do not
ShapelessValues ==
    {Null, Num(7), Arr(<<>>), Obj([answer |-> Str(<<"yes">>)]),
     Answer(Null, Arr(<<>>), Str(<<"high">>), Arr(<<>>)),
     Answer(Str(<<"none">>), Arr(<<>>), Str(<<"high">>), Arr(<<>>))}

ParsedValues == ShapedValues \cup ShapelessValues

SyntaxError == Exception("SyntaxError", <<"Unexpected token">>)
TransportError == Exception("Error", <<"fetch failed">>)

\* The raw text of a model response, by what the code asks of it: whether it is
\* there at all (rawText truthy), what looksLikeTruncatedJson says of it, and
\* what extractJson makes of it (a parsed value, or the error of the repair).
RawTexts ==
    {[present |-> FALSE, truncated |-> TRUE, json |-> Throw(SyntaxError)]}
    \cup {[present |-> TRUE, truncated |-> b, json |-> j] :
            b \in BOOLEAN,
            j \in {Throw(SyntaxError)} \cup {Return(v) : v \in ParsedValues}}

\* what one client.models.generateContent call may end with
GeminiReplies ==
    {[kind |-> "reject", err |-> TransportError]}
    \cup {[kind |-> "response", text |-> t, finishReason |-> r] :
            t \in RawTexts, r \in {"STOP", "MAX_TOKENS"}}

(***************************************************************************)
(* callGemini: one orchestrator-level call, up to three model invocations. *)
(***************************************************************************)
\* maxOutputTokens of attempts 1, 2 and 3
GeminiBudgets == <<4096, 8192, 12288>>

NoError == Exception("none", <<>>)

\* the call waits for a further model invocation
Await(n, savedErr) == [k |-> "await", attempt |-> n, parseErr |-> savedErr]
\* the call has returned or thrown
Done(completion) == [k |-> "done", completion |-> completion]

\* callGemini lines 420-429: the basic shape validation
GeminiShape(parsed) ==
    IF IsNullish(parsed) THEN Throw(TypeErrorOf(parsed.t))
    ELSE IF \/ ~IsString(Get(parsed, "answer"))
            \/ ~IsString(Get(parsed, "reasoning"))
            \/ ~IsArray(Get(parsed, "evidence_for"))
         THEN Throw(Exception("Error", <<"Gemini returned invalid response shape">>))
         ELSE Return(parsed)

\* callGemini lines 400-418, for the text and finish reason of attempt 1 or 2
GeminiParse(text, finishReason) ==
    IF ~text.present
    THEN Done(Throw(Exception("Error", <<"No text in Gemini response">>)))
    ELSE IF text.json.threw
         THEN IF finishReason = "MAX_TOKENS"
              THEN Await(3, text.json.err)
              ELSE Done(Throw(text.json.err))
         ELSE Done(GeminiShape(text.json.value))

\* line 393 without its test of rawText
GeminiRetriesTruncated_Textless(reply) ==
    reply.finishReason = "MAX_TOKENS" /\ reply.text.truncated

\* line 393: attempt 1 is repeated with the larger budget
GeminiRetriesTruncated(reply) ==
    reply.text.present /\ reply.finishReason = "MAX_TOKENS" /\ reply.text.truncated

\* callGemini from the reply to the awaited attempt up to its next await,
\* return or throw
callGeminiStep(n, savedErr, reply) ==
    IF reply.kind = "reject" THEN Done(Throw(reply.err))
    ELSE IF n = 1
         THEN IF GeminiRetriesTruncated(reply)
              THEN Await(2, NoError)
              ELSE GeminiParse(reply.text, reply.finishReason)
    ELSE IF n = 2 THEN GeminiParse(reply.text, reply.finishReason)
    ELSE IF ~reply.text.present THEN Done(Throw(savedErr))
    ELSE IF reply.text.json.threw THEN Done(Throw(reply.text.json.err))
    ELSE Done(GeminiShape(reply.text.json.value))

(***************************************************************************)
(* The ask-doc handler.                                                    *)
(***************************************************************************)
\* obj with its property f set to val
Set(obj, f, val) ==
    Obj([g \in (DOMAIN obj.v) \cup {f} |-> IF g = f THEN val ELSE obj.v[g]])

\* jsonResponse(body, status)
Respond(status, body) == [k |-> "respond", status |-> status, body |-> body]
\* needsRetry = true: the strict call is issued next
Escalate == [k |-> "escalate"]

ErrorBody(message) == Obj([error |-> Str(message)])

\* the catch of the whole handler (ask-doc line 553, ask-openAI line 499)
InternalError(err) == Respond(500, ErrorBody(<<"Internal error: ">> \o ErrToString(err)))

\* String.prototype.toLowerCase, chunk by chunk
LowerChunk(c) ==
    CASE c = "High" -> "high"
      [] c = "Medium" -> "medium"
      [] c = "Low" -> "low"
      [] OTHER -> c

toLowerCase(s) == [i \in 1..Len(s) |-> LowerChunk(s[i])]

ConfidenceLevels == {<<"low">>, <<"medium">>, <<"high">>}

\* ask-doc lines 530-542
DocConfidence(c) ==
    IF IsString(c) /\ toLowerCase(c.v) \in ConfidenceLevels
    THEN Str(toLowerCase(c.v))
    ELSE Str(<<"medium">>)

\* ArrayOrEmpty without the Array.isArray test: the value stays as it is
ArrayOrEmpty_AsIs(x) == x

\* lines 524-529: a value that is no array is replaced by []
ArrayOrEmpty(x) == IF IsArray(x) THEN x ELSE Arr(<<>>)

\* ask-doc lines 523-552: the terminal normalization and the 200 response
DocFinish(result) ==
    Respond(200,
        Set(Set(Set(result,
            "evidence_against", ArrayOrEmpty(Get(result, "evidence_against"))),
            "missing_info", ArrayOrEmpty(Get(result, "missing_info"))),
            "confidence", DocConfidence(Get(result, "confidence"))))

\* result.evidence_against ?? []
AgainstOrEmpty(result) ==
    IF IsNullish(Get(result, "evidence_against"))
    THEN Arr(<<>>)
    ELSE Get(result, "evidence_against")

\* DocAccept with line 500 forgotten: evidence_against stays as the model gave it
DocAccept_KeepsAgainst(result, verifiedFor, verifiedAgainst) ==
    Set(result, "evidence_for", verifiedFor)

\* lines 499-500: the result with both lists replaced by the verified ones
DocAccept(result, verifiedFor, verifiedAgainst) ==
    Set(Set(result, "evidence_for", verifiedFor), "evidence_against", verifiedAgainst)

\* DocDropped with <= for <: the first pass is never accepted
DocDropped_OrEqual(result, verifiedFor) ==
    Len(verifiedFor.v) <= Len(Get(result, "evidence_for").v)

\* line 495: some evidence_for item was dropped
DocDropped(result, verifiedFor) ==
    Len(verifiedFor.v) < Len(Get(result, "evidence_for").v)

\* ask-doc lines 480-502 and on to the response when no retry is needed:
\* what the handler does once the first callGemini has returned or thrown
DocFirstPass(completion, pages) ==
    IF completion.threw THEN Escalate
    ELSE LET result == completion.value
             verifiedFor == filterEvidence(Get(result, "evidence_for"), pages)
             verifiedAgainst == filterEvidence(AgainstOrEmpty(result), pages)
         IN  IF verifiedFor.threw THEN InternalError(verifiedFor.err)
             ELSE IF verifiedAgainst.threw THEN InternalError(verifiedAgainst.err)
             ELSE IF DocDropped(result, verifiedFor.value) THEN Escalate
             ELSE DocFinish(DocAccept(result, verifiedFor.value, verifiedAgainst.value))

\* DocRetryFailed without its status argument: jsonResponse answers 200
DocRetryFailed_DefaultStatus(err) ==
    Respond(200, ErrorBody(<<"Gemini call failed after retry: ">> \o ErrToString(err)))

\* line 509: the response to a strict call that failed
DocRetryFailed(err) ==
    Respond(502, ErrorBody(<<"Gemini call failed after retry: ">> \o ErrToString(err)))

\* ask-doc lines 505-552: what the handler does once the strict callGemini has
\* returned or thrown
DocStrictPass(completion, pages) ==
    IF completion.threw THEN DocRetryFailed(completion.err)
    ELSE LET result == completion.value
             verifiedFor == filterEvidence(Get(result, "evidence_for"), pages)
             verifiedAgainst == filterEvidence(AgainstOrEmpty(result), pages)
         IN  IF verifiedFor.threw THEN InternalError(verifiedFor.err)
             ELSE IF verifiedAgainst.threw THEN InternalError(verifiedAgainst.err)
             ELSE DocFinish(DocAccept(result, verifiedFor.value, verifiedAgainst.value))

(***************************************************************************)
(* Requests.                                                               *)
(***************************************************************************)
\* a body req.json() cannot parse
Unparsable == [t |-> "unparsable"]

Body(question, pages, maxEvidence) ==
    Obj([question |-> question, pages |-> pages, maxEvidence |-> maxEvidence])

\* the request askQuestion sends: maxEvidence is its default parameter, 3
DefaultMaxEvidence == 3

PageRequest == [method |-> "POST", body |-> Body(Question, PagesText, Num(DefaultMaxEvidence))]

\* requests of any other client of the function
OtherRequests ==
    {[method |-> m, body |-> Body(Question, PagesText, Undef)] : m \in {"OPTIONS", "GET"}}
    \cup {[method |-> "POST", body |-> b] :
            b \in {Unparsable, Null,
                   Body(Question, PagesText, Undef),
                   Body(Question, PagesText, Num(1)),
                   Body(Undef, PagesText, Undef),
                   Body(Str(<<>>), PagesText, Undef),
                   Body(Num(7), PagesText, Undef),
                   Body(Question, Undef, Undef),
                   Body(Question, Arr(<<>>), Undef),
                   Body(Question, Arr(<<Obj([text |-> Str(<<"b">>)])>>), Undef),
                   Body(Question, Arr(<<Obj([page |-> Num(1)])>>), Undef),
                   Body(Question, Arr(<<Null>>), Undef)}}

\* !question || typeof question !== "string"
BadQuestion(q) == ~IsString(q) \/ q.v = <<>>

\* the page entry p fails typeof p.page !== "number" || typeof p.text !== "string"
BadPage(p) == ~IsNumber(Get(p, "page")) \/ ~IsString(Get(p, "text"))

\* The handler from its entry to its first await of the model: the early
\* response it returns, or "call" when the first model call is issued.
\* ask-doc lines 436-475, ask-openAI lines 381-421.
Entry(request, keyConfigured, keyName) ==
    IF request.method = "OPTIONS" THEN Respond(204, Null)
    ELSE IF request.method # "POST"
         THEN Respond(405, ErrorBody(<<"Method not allowed">>))
    ELSE IF request.body = Unparsable THEN InternalError(SyntaxError)
    ELSE IF IsNullish(request.body) THEN InternalError(TypeErrorOf(request.body.t))
    ELSE LET question == Get(request.body, "question")
             pages == Get(request.body, "pages")
         IN  IF BadQuestion(question)
             THEN Respond(400, ErrorBody(<<"Missing or invalid 'question'">>))
             ELSE IF ~IsArray(pages) \/ Len(pages.v) = 0
             THEN Respond(400, ErrorBody(<<"Missing or invalid 'pages'">>))
             ELSE IF \E i \in 1..Len(pages.v) :
                        /\ IsNullish(pages.v[i])
                        /\ \A j \in 1..(i - 1) : ~BadPage(pages.v[j])
             THEN InternalError(TypeErrorOf("null"))
             ELSE IF \E i \in 1..Len(pages.v) : BadPage(pages.v[i])
             THEN Respond(400,
                    ErrorBody(<<"Each page must have numeric 'page' and string 'text'">>))
             ELSE IF ~keyConfigured
             THEN Respond(500, ErrorBody(<<keyName, " not configured">>))
             ELSE [k |-> "call"]

(***************************************************************************)
(* ask-openAI: runOpenAIAttempt, callOpenAI and the handler.               *)
(***************************************************************************)
\* the texts a Responses payload may carry (extractOutputText, JSON.parse)
OpenAITexts == {t \in RawTexts : t.present => ~t.truncated}

\* status and incomplete_details.reason of a payload, as the messages print them
OpenAIStatuses == {<<"completed", "none">>, <<"incomplete", "max_output_tokens">>}

\* what one fetch of the Responses API may end with
OpenAIReplies ==
    {[kind |-> "reject", err |-> TransportError],
     [kind |-> "http_error", detail |-> <<"rate limited">>],
     [kind |-> "http_error", detail |-> <<"max_output_tokens", " is too large">>],
     [kind |-> "non_json"],
     [kind |-> "refusal"]}
    \cup {[kind |-> "response", status |-> st, text |-> t] :
            st \in OpenAIStatuses, t \in OpenAITexts}

\* (status=..., incompleteReason=...)
StatusSuffix(st) == <<" (status=", st[1], ", ", "incomplete", "Reason=", st[2], ")">>

\* ask-openAI validateShape
validateShape(value) ==
    IF value.t \notin {"object", "array"}
    THEN Throw(Exception("Error", <<"OpenAI returned non-object JSON">>))
    ELSE IF ~IsString(Get(value, "answer"))
    THEN Throw(Exception("Error", <<"Missing answer">>))
    ELSE IF ~IsString(Get(value, "reasoning"))
    THEN Throw(Exception("Error", <<"Missing reasoning">>))
    ELSE IF ~(IsString(Get(value, "confidence"))
              /\ Get(value, "confidence").v \in ConfidenceLevels)
    THEN Throw(Exception("Error", <<"Invalid confidence">>))
    ELSE IF ~IsArray(Get(value, "evidence_for"))
    THEN Throw(Exception("Error", <<"Missing evidence_for">>))
    ELSE IF ~IsArray(Get(value, "evidence_against"))
    THEN Throw(Exception("Error", <<"Missing evidence_against">>))
    ELSE IF ~IsArray(Get(value, "missing_info"))
    THEN Throw(Exception("Error", <<"Missing missing_info">>))
    ELSE Return(Obj([answer |-> Get(value, "answer"),
                     reasoning |-> Get(value, "reasoning"),
                     confidence |-> Get(value, "confidence"),
                     evidence_for |-> Get(value, "evidence_for"),
                     evidence_against |-> Get(value, "evidence_against"),
                     missing_info |->
                        Arr(SelectSeq(Get(value, "missing_info").v, IsString))]))

\* runOpenAIAttempt lines 250-330: what the attempt returns or throws
runOpenAIAttempt(reply) ==
    CASE reply.kind = "reject" -> Throw(reply.err)
      [] reply.kind = "http_error" ->
            Throw(Exception("Error", <<"OpenAI API error (", "429", "): ">> \o reply.detail))
      [] reply.kind = "non_json" ->
            Throw(Exception("Error",
                <<"OpenAI returned non-JSON response: ">> \o ErrToString(SyntaxError)))
      [] reply.kind = "refusal" -> Throw(Exception("Error", <<"Model refused request">>))
      [] OTHER ->
            IF ~reply.text.present
            THEN Throw(Exception("Error",
                    <<"OpenAI response did not contain output text">>
                    \o StatusSuffix(reply.status)))
            ELSE IF reply.text.json.threw
            THEN Throw(Exception("Error",
                    <<"Failed to parse ", "structured JSON">> \o StatusSuffix(reply.status)
                    \o <<": ">> \o ErrToString(reply.text.json.err)))
            ELSE validateShape(reply.text.json.value)

\* message.includes(word), for a word that is a chunk of the messages
Mentions(message, word) == word \in Range(message)

\* budgets of callOpenAI
OpenAIBudgets == <<4096, 8192, 12288>>

\* OpenAIRetries without the i < budgets.length - 1 guards
OpenAIRetries_Unbounded(i, err) ==
    \/ Mentions(err.message, "max_output_tokens")
    \/ Mentions(err.message, "incomplete")
    \/ Mentions(err.message, "structured JSON")

\* callOpenAI lines 358-374: the attempt's error leads to the next budget
OpenAIRetries(i, err) ==
    /\ i < Len(OpenAIBudgets)
    /\ \/ Mentions(err.message, "max_output_tokens")
       \/ Mentions(err.message, "incomplete")
       \/ Mentions(err.message, "structured JSON")

\* callOpenAI from the reply to attempt i up to its next attempt, return or throw
callOpenAIStep(i, reply) ==
    LET attempt == runOpenAIAttempt(reply)
    IN  IF ~attempt.threw THEN Done(attempt)
        ELSE IF OpenAIRetries(i, attempt.err) THEN Await(i + 1, NoError)
        ELSE Done(attempt)

\* the largest evidence cap of ask-openAI
EvidenceCap == 8

\* Math.max(1, Math.min(Number(maxEvidence) || 3, 8)), line 421
boundedEvidence(maxEvidence) ==
    LET n == IF IsNumber(maxEvidence) /\ maxEvidence.v # 0
             THEN maxEvidence.v ELSE DefaultMaxEvidence
        capped == IF n < EvidenceCap THEN n ELSE EvidenceCap
    IN  IF capped > 1 THEN capped ELSE 1

\* ask-openAI lines 480-486
OpenAIConfidence(c) ==
    IF IsString(c) /\ c.v \in ConfidenceLevels THEN c ELSE Str(<<"medium">>)

\* ask-openAI lines 472-498
OpenAIFinish(result) ==
    Respond(200,
        Set(Set(Set(result,
            "evidence_against", ArrayOrEmpty(Get(result, "evidence_against"))),
            "missing_info", ArrayOrEmpty(Get(result, "missing_info"))),
            "confidence", OpenAIConfidence(Get(result, "confidence"))))

\* ask-openAI lines 426-451 and on to the response when no retry is needed
OpenAIFirstPass(completion, pages, cap) ==
    IF completion.threw THEN Escalate
    ELSE LET result == completion.value
             verifiedFor == filterEvidenceOpenAI(Get(result, "evidence_for"), pages, cap)
             verifiedAgainst == filterEvidenceOpenAI(AgainstOrEmpty(result), pages, cap)
         IN  IF verifiedFor.threw THEN InternalError(verifiedFor.err)
             ELSE IF verifiedAgainst.threw THEN InternalError(verifiedAgainst.err)
             ELSE IF DocDropped(result, verifiedFor.value) THEN Escalate
             ELSE OpenAIFinish(DocAccept(result, verifiedFor.value, verifiedAgainst.value))

\* line 465
OpenAIRetryFailed(err) ==
    Respond(502, ErrorBody(<<"OpenAI call failed after retry: ">> \o ErrToString(err)))

\* ask-openAI lines 453-498
OpenAIStrictPass(completion, pages, cap) ==
    IF completion.threw THEN OpenAIRetryFailed(completion.err)
    ELSE LET result == completion.value
             verifiedFor == filterEvidenceOpenAI(Get(result, "evidence_for"), pages, cap)
             verifiedAgainst == filterEvidenceOpenAI(AgainstOrEmpty(result), pages, cap)
         IN  IF verifiedFor.threw THEN InternalError(verifiedFor.err)
             ELSE IF verifiedAgainst.threw THEN InternalError(verifiedAgainst.err)
             ELSE OpenAIFinish(DocAccept(result, verifiedFor.value, verifiedAgainst.value))

(***************************************************************************)
(* The page: askQuestion and handleAsk.                                    *)
(***************************************************************************)
DEFAULT_ERROR_MESSAGE == <<"Unable to analyze this document right now. Please try again.">>

UNEXPECTED_RESPONSE_MESSAGE ==
    <<"The document service returned an unexpected response. Please try again.">>

RECURSIVE JsonWire(_)
\* JSON.parse(JSON.stringify(x)): a property that is undefined is left out, an
\* array element that is undefined arrives as null
JsonWire(x) ==
    CASE x.t = "object" ->
            Obj([f \in {g \in DOMAIN x.v : x.v[g] # Undef} |-> JsonWire(x.v[f])])
      [] x.t = "array" ->
            Arr([i \in 1..Len(x.v) |->
                    IF x.v[i] = Undef THEN Null ELSE JsonWire(x.v[i])])
      [] OTHER -> x

\* response.json() of askQuestion, with data left null when it throws
ResponseData(r) ==
    IF r.status = 204 \/ r.body.t = "unparsable" THEN Null ELSE JsonWire(r.body)

\* response.ok
IsOk(status) == status >= 200 /\ status <= 299

\* asFriendlyError without its default
asFriendlyError_NoDefault(message) == Trim(message)

asFriendlyError(message) ==
    IF Trim(message) # <<>> THEN Trim(message) ELSE DEFAULT_ERROR_MESSAGE

isQaResponse(value) ==
    /\ value.t \in {"object", "array"}
    /\ IsString(Get(value, "answer"))
    /\ IsString(Get(value, "reasoning"))
    /\ IsString(Get(value, "confidence"))
    /\ Get(value, "confidence").v \in ConfidenceLevels
    /\ IsArray(Get(value, "evidence_for"))
    /\ IsArray(Get(value, "evidence_against"))
    /\ IsArray(Get(value, "missing_info"))

\* askQuestion lines 96-125: what it resolves with, or the Error it rejects
\* with (by its message), once the response r has arrived
askQuestion(r) ==
    LET data == ResponseData(r)
    IN  IF ~IsOk(r.status)
        THEN IF data.t = "object" /\ "error" \in DOMAIN data.v /\ IsString(data.v.error)
             THEN Throw(asFriendlyError(data.v.error.v))
             ELSE Throw(DEFAULT_ERROR_MESSAGE)
        ELSE IF ~isQaResponse(data) THEN Throw(UNEXPECTED_RESPONSE_MESSAGE)
        ELSE Return(data)

(***************************************************************************)
(* State.                                                                  *)
(***************************************************************************)
VARIABLES
    pc,           \* "idle", "sent", "await" (the handler awaits the model),
                  \* "responded", "settled" (handleAsk has finished)
    origin,       \* "page" (handleAsk) or "other" (any other client)
    fn,           \* the edge function the request goes to
    req,          \* the request
    call,         \* the orchestrator-level call in progress: 1, 2 (strict), 0 none
    attempt,      \* the model invocation of that call that is awaited
    budget,       \* its output budget
    parseErr,     \* callGemini: the parse error kept while attempt 3 runs
    strictLog,    \* the strict flag of every orchestrator-level call issued
    invocations,  \* model invocations issued for this request
    passes,       \* how each finished call ended: "failed" or "shaped"
    first,        \* what verification found in the first pass
    lastResult,   \* the value returned by the call the response was made from
    resp,         \* the HTTP response
    loading,      \* page state
    response,     \* page state
    askError,     \* page state
    replies,      \* what the model answered to each finished call
    probe,        \* a single call of one of the pure functions, with its result
    question,     \* page state: the text of the question box
    pagesText,    \* page state: null, or the page texts handed over by the viewer
    documentVersion,  \* page: documentVersionRef.current
    asks,         \* the askQuestion calls of handleAsk that have not settled
    frames,       \* the animation-frame callbacks of handleAsk not yet run
    error,        \* viewer state: null or the message shown instead of the PDF
    fileUrl,      \* viewer state: the object URL of the chosen file, 0 for null
    pdfDocument,  \* the document PdfLoader hands to LoadedPdfDocument, 0 for none
    extractions,  \* the runs of extractPagesText that have not returned
    activeHighlights,        \* viewer state
    pendingHighlightTimers,  \* viewer: pendingHighlightTimersRef.current
    attempts,     \* runAttempt calls made since the last call of tryApplyHighlight
    seen          \* observation: the kinds of late or overlapping work met so far

vars == <<pc, origin, fn, req, call, attempt, budget, parseErr, strictLog,
          invocations, passes, first, lastResult, resp, loading, response, askError,
          replies, probe, question, pagesText, documentVersion, asks, frames,
          error, fileUrl, pdfDocument, extractions, activeHighlights,
          pendingHighlightTimers, attempts, seen>>

\* the state of the browser that the request pipeline does not touch
browser == <<question, pagesText, documentVersion, asks, frames, error, fileUrl,
             pdfDocument, extractions, activeHighlights, pendingHighlightTimers,
             attempts, seen>>

None == [t |-> "none"]

NoFirst == [shaped |-> FALSE, allVerified |-> FALSE, dropped |-> FALSE,
            empty |-> FALSE, againstFilters |-> FALSE]

Functions == {"ask-doc", "ask-openAI"}

Init ==
    /\ pc = "idle"
    /\ origin = "none"
    /\ fn = "none"
    /\ req = None
    /\ call = 0
    /\ attempt = 0
    /\ budget = 0
    /\ parseErr = NoError
    /\ strictLog = <<>>
    /\ invocations = 0
    /\ passes = <<>>
    /\ first = NoFirst
    /\ lastResult = None
    /\ resp = None
    /\ loading = FALSE
    /\ response = Null
    /\ askError = Null
    /\ replies = <<>>
    /\ probe = None
    /\ question = <<>>
    /\ pagesText = Null
    /\ documentVersion = 0
    /\ asks = <<>>
    /\ frames = <<>>
    /\ error = Null
    /\ fileUrl = 0
    /\ pdfDocument = 0
    /\ extractions = {}
    /\ activeHighlights = <<>>
    /\ pendingHighlightTimers = {}
    /\ attempts = 0
    /\ seen = {}

(***************************************************************************)
(* Observations kept for the properties (they steer nothing).              *)
(***************************************************************************)
\* every item of the array satisfies the Verifier
AllVerified(items, pages) ==
    \A i \in 1..Len(items.v) : DocItemKept(items.v[i], pages)

\* the filter of function f over evidence_for ran through and fewer items
\* survived than the model returned
ForDropped(f, result, pages, cap) ==
    LET verifiedFor == IF f = "ask-doc"
                       THEN filterEvidence(Get(result, "evidence_for"), pages)
                       ELSE filterEvidenceOpenAI(Get(result, "evidence_for"), pages, cap)
    IN  /\ ~verifiedFor.threw
        /\ Len(verifiedFor.value.v) # Len(Get(result, "evidence_for").v)

FirstSeen(f, completion, pages, cap) ==
    IF completion.threw THEN NoFirst
    ELSE [shaped |-> TRUE,
          allVerified |-> AllVerified(Get(completion.value, "evidence_for"), pages),
          dropped |-> ForDropped(f, completion.value, pages, cap),
          empty |-> Get(completion.value, "evidence_for") = Arr(<<>>),
          againstFilters |->
              LET against == Get(completion.value, "evidence_against")
              IN  \/ IsNullish(against)
                  \/ IsArray(against) /\ Null \notin Range(against.v)]

PassOf(completion) == IF completion.threw THEN "failed" ELSE "shaped"

ValueOf(completion) == IF completion.threw THEN None ELSE completion.value

\* the JSON value the reply carries, None when it carries none
ParsedOf(reply) ==
    IF reply.kind = "response" /\ reply.text.present /\ ~reply.text.json.threw
    THEN reply.text.json.value
    ELSE None

\* of the reply that ended a call: whether its value has a string answer, a
\* string reasoning and an array evidence_for, whether its evidence_against and
\* missing_info are arrays, and its confidence
Seen(reply) ==
    LET v == ParsedOf(reply)
    IN  [basic |-> /\ IsString(Get(v, "answer"))
                   /\ IsString(Get(v, "reasoning"))
                   /\ IsArray(Get(v, "evidence_for")),
         arrays |-> /\ IsArray(Get(v, "evidence_against"))
                    /\ IsArray(Get(v, "missing_info")),
         confidence |-> Get(v, "confidence")]

\* budgets[n], undefined (0 here) past the end
BudgetAt(budgets, n) == IF n \in DOMAIN budgets THEN budgets[n] ELSE 0

(***************************************************************************)
(* Actions.                                                                *)
(***************************************************************************)
\* handleAsk up to its await of askQuestion (page.tsx lines 20-33); the page
\* always asks with askQuestion's defaults, which name ask-doc
HandleAsk ==
    /\ pc = "idle"
    /\ ~loading
    /\ Trim(Question.v) # <<>>
    /\ Len(PagesText.v) > 0
    /\ loading' = TRUE
    /\ response' = Null
    /\ askError' = Null
    /\ origin' = "page"
    /\ fn' = "ask-doc"
    /\ req' = PageRequest
    /\ pc' = "sent"
    /\ UNCHANGED <<call, attempt, budget, parseErr, strictLog, invocations,
                   passes, first, lastResult, resp, replies, probe,
                   browser>>

\* any other client posts to one of the functions
OtherAsk ==
    /\ pc = "idle"
    /\ origin' = "other"
    /\ fn' \in Functions
    /\ req' \in OtherRequests
    /\ pc' = "sent"
    /\ UNCHANGED <<call, attempt, budget, parseErr, strictLog, invocations,
                   passes, first, lastResult, resp, loading, response, askError,
                   replies, probe,
                   browser>>

\* the handler ends with a response
Responds(outcome) ==
    /\ pc' = "responded"
    /\ resp' = [status |-> outcome.status, body |-> outcome.body]
    /\ call' = 0
    /\ attempt' = 0
    /\ budget' = 0
    /\ parseErr' = NoError

\* the handler issues an orchestrator-level call and awaits its first attempt
Calls(n, budgets) ==
    /\ pc' = "await"
    /\ call' = n
    /\ attempt' = 1
    /\ budget' = BudgetAt(budgets, 1)
    /\ parseErr' = NoError
    /\ strictLog' = Append(strictLog, n = 2)
    /\ invocations' = invocations + 1
    /\ resp' = resp

\* the handler from the request to its first model invocation, or to an early
\* response
Serve(keyName, budgets) ==
    /\ pc = "sent"
    /\ \E keyConfigured \in BOOLEAN :
          LET entry == Entry(req, keyConfigured, keyName)
          IN  IF entry.k = "call"
              THEN Calls(1, budgets)
              ELSE Responds(entry) /\ UNCHANGED <<strictLog, invocations>>
    /\ UNCHANGED <<origin, fn, req, passes, first, lastResult, loading, response,
                   askError, replies, probe,
                   browser>>

ServeAskDoc == fn = "ask-doc" /\ Serve("GEMINI_API_KEY", GeminiBudgets)

ServeAskOpenAI == fn = "ask-openAI" /\ Serve("OPENAI_API_KEY", OpenAIBudgets)

\* the running call goes on to a further model invocation
NextAttempt(step, budgets) ==
    /\ attempt' = step.attempt
    /\ budget' = BudgetAt(budgets, step.attempt)
    /\ parseErr' = step.parseErr
    /\ invocations' = invocations + 1
    /\ UNCHANGED <<pc, call, strictLog, passes, first, lastResult, resp, replies>>

\* the running call is over and the handler has gone on to outcome
CallOver(reply, completion, outcome, budgets) ==
    /\ passes' = Append(passes, PassOf(completion))
    /\ replies' = Append(replies, Seen(reply))
    /\ lastResult' = IF outcome.k = "escalate" THEN None ELSE ValueOf(completion)
    /\ first' = IF call = 1
                THEN FirstSeen(fn, completion, Get(req.body, "pages"),
                               boundedEvidence(Get(req.body, "maxEvidence")))
                ELSE first
    /\ IF outcome.k = "escalate"
       THEN Calls(2, budgets)
       ELSE Responds(outcome) /\ UNCHANGED <<strictLog, invocations>>

\* ask-doc: the model answers the awaited attempt; callGemini and the handler
\* run on to the next await or to the response
GeminiReply ==
    /\ pc = "await"
    /\ fn = "ask-doc"
    /\ \E reply \in GeminiReplies :
          LET step == callGeminiStep(attempt, parseErr, reply)
              pages == Get(req.body, "pages")
          IN  IF step.k = "await"
              THEN NextAttempt(step, GeminiBudgets)
              ELSE CallOver(reply, step.completion,
                            IF call = 1
                            THEN DocFirstPass(step.completion, pages)
                            ELSE DocStrictPass(step.completion, pages),
                            GeminiBudgets)
    /\ UNCHANGED <<origin, fn, req, loading, response, askError, probe,
                   browser>>

\* ask-openAI: the same for callOpenAI
OpenAIReply ==
    /\ pc = "await"
    /\ fn = "ask-openAI"
    /\ \E reply \in OpenAIReplies :
          LET step == callOpenAIStep(attempt, reply)
              pages == Get(req.body, "pages")
              cap == boundedEvidence(Get(req.body, "maxEvidence"))
          IN  IF step.k = "await"
              THEN NextAttempt(step, OpenAIBudgets)
              ELSE CallOver(reply, step.completion,
                            IF call = 1
                            THEN OpenAIFirstPass(step.completion, pages, cap)
                            ELSE OpenAIStrictPass(step.completion, pages, cap),
                            OpenAIBudgets)
    /\ UNCHANGED <<origin, fn, req, loading, response, askError, probe,
                   browser>>

\* the response reaches the page: askQuestion settles and handleAsk runs to
\* its end (page.tsx lines 33-63)
AskSettles ==
    /\ pc = "responded"
    /\ origin = "page"
    /\ LET settled == askQuestion(resp)
       IN  IF settled.threw
           THEN askError' = Str(settled.err) /\ response' = response
           ELSE response' = settled.value /\ askError' = askError
    /\ loading' = FALSE
    /\ pc' = "settled"
    /\ UNCHANGED <<origin, fn, req, call, attempt, budget, parseErr, strictLog,
                   invocations, passes, first, lastResult, resp, replies, probe,
                   browser>>

\* fetch rejects (the request or its response is lost): askQuestion lines 91-94
FetchFails ==
    /\ pc \in {"sent", "responded"}
    /\ origin = "page"
    /\ askError' = Str(DEFAULT_ERROR_MESSAGE)
    /\ loading' = FALSE
    /\ pc' = "settled"
    /\ UNCHANGED <<origin, fn, req, call, attempt, budget, parseErr, strictLog,
                   invocations, passes, first, lastResult, resp, response, replies,
                   probe,
                   browser>>

Next ==
    \/ HandleAsk
    \/ OtherAsk
    \/ ServeAskDoc
    \/ ServeAskOpenAI
    \/ GeminiReply
    \/ OpenAIReply
    \/ AskSettles
    \/ FetchFails

Spec == Init /\ [][Next]_vars

(***************************************************************************)
(* The Quote Verifier and the Evidence Filter on their own: single calls   *)
(* of verifyQuote and of the two filterEvidence functions, on arguments    *)
(* drawn from small sets. probe is None until the call is made.            *)
(***************************************************************************)
pipeline == <<pc, origin, fn, req, call, attempt, budget, parseErr, strictLog,
              invocations, passes, first, lastResult, resp, loading, response,
              askError, replies, browser>>

\* the strings of at most n characters of the alphabet
Strings(alphabet, n) == UNION {[1..k -> alphabet] : k \in 0..n}

\* the characters of page texts and quotes
TextAlphabet == {"a", "A", " ", "\n"}

\* runs of whitespace a quote may carry where the page has a single space
Runs == {<<" ">>, <<" ", " ">>, <<"\n", " ", "\t">>}

RECURSIVE Widen(_, _, _)
\* s with its k-th, (k+1)-th ... whitespace character (a space, s being
\* collapsed) widened to the runs g[k], g[k+1] ...
Widen(s, g, k) ==
    IF s = <<>> THEN <<>>
    ELSE IF Head(s) \in Whitespace
         THEN g[IF k \in DOMAIN g THEN k ELSE 1] \o Widen(Tail(s), g, k + 1)
         ELSE <<Head(s)>> \o Widen(Tail(s), g, k)

\* quotes copied from a stretch of the whitespace-collapsed text, with wider
\* whitespace between the words and whitespace around
CopiedQuotes(text) ==
    LET collapsed == CollapseWhitespace(text)
    IN  {lead \o Widen(SubSeq(collapsed, i, j), g, 1) \o trail :
            i \in 1..(Len(collapsed) + 1), j \in 0..Len(collapsed),
            g \in [1..2 -> Runs],
            lead \in {<<>>, <<" ">>, <<"\t", "\n">>},
            trail \in {<<>>, <<" ">>, <<"\n", " ">>}}

\* what verifyQuote(pages, page, quote) returns or throws
verifyQuoteCall(pages, page, quote) ==
    IF verifyQuoteThrows(pages, page, quote)
    THEN Throw(Exception("TypeError", <<"quote.replace is not a function">>))
    ELSE Return(verifyQuote(pages, page, quote))

\* one call of verifyQuote: the text of the first page, the page number of
\* the second entry (it may repeat the first), the page asked for and the quote
VerifyQuoteCall ==
    /\ probe = None
    /\ \E text \in Strings(TextAlphabet, MaxText), second \in 1..2, page \in 1..3 :
         \E quote \in {Str(q) : q \in Strings(TextAlphabet, MaxQuote) \cup CopiedQuotes(text)}
                        \cup {Num(5)} :
            LET pages == Arr(<<Page(1, text), Page(second, <<"A">>)>>)
            IN  probe' = [op |-> "verifyQuote", pages |-> pages, page |-> Num(page),
                          quote |-> quote,
                          out |-> verifyQuoteCall(pages, Num(page), quote)]
    /\ UNCHANGED pipeline

\* a quote of nothing but whitespace
ItemBlankQuote == Item(Num(2), Str(<<" ", "\n">>), Note)
\* an item of page 0
ItemPageZero == Item(Num(0), Str(<<"b">>), Note)

\* the items of the lists given to the filters
FilterItems == ForItems \cup {ItemBlankQuote, ItemPageZero}

\* the pages of a request whose numbering starts at 0
PagesFromZero == Arr(<<Page(0, <<"b">>), Page(1, <<"a", " ", " ", "b">>)>>)

FilterLists == UNION {[1..k -> FilterItems] : k \in 0..MaxList}

\* one call of filterEvidence of ask-doc
FilterDocCall ==
    /\ probe = None
    /\ \E items \in FilterLists, pages \in {PagesText, PagesFromZero} :
          probe' = [op |-> "filterEvidence", fn |-> "ask-doc", items |-> Arr(items),
                    pages |-> pages, cap |-> 0,
                    out |-> filterEvidence(Arr(items), pages)]
    /\ UNCHANGED pipeline

\* one call of filterEvidence of ask-openAI, with a cap boundedEvidence may be
FilterOpenAICall ==
    /\ probe = None
    /\ \E items \in FilterLists, pages \in {PagesText, PagesFromZero}, cap \in 1..MaxList :
          probe' = [op |-> "filterEvidence", fn |-> "ask-openAI", items |-> Arr(items),
                    pages |-> pages, cap |-> cap,
                    out |-> filterEvidenceOpenAI(Arr(items), pages, cap)]
    /\ UNCHANGED pipeline

VerifierNext ==
    \/ VerifyQuoteCall
    \/ FilterDocCall
    \/ FilterOpenAICall

VerifierSpec == Init /\ [][VerifierNext]_vars

(***************************************************************************)
(* Properties.                                                             *)
(***************************************************************************)
\* the handler has responded
Responded == resp # None

RequestPages == Get(req.body, "pages")

RequestCap == boundedEvidence(Get(req.body, "maxEvidence"))

\* the handler responded right after its strict call
StrictFailed == Len(passes) = 2 /\ passes[2] = "failed"

StrictShaped == Len(passes) = 2 /\ passes[2] = "shaped"

\* C1: every evidence_for and evidence_against item of a 200 response satisfies
\* verifyQuote against the pages of the same request, in ask-doc and ask-openAI,
\* whether the first pass was accepted or the strict retry produced it.
C1_ReturnedEvidenceVerifies ==
    (Responded /\ resp.status = 200) =>
        /\ IsArray(Get(resp.body, "evidence_for"))
        /\ IsArray(Get(resp.body, "evidence_against"))
        /\ AllVerified(Get(resp.body, "evidence_for"), RequestPages)
        /\ AllVerified(Get(resp.body, "evidence_against"), RequestPages)

\* C1 witness: a 200 made by the strict retry, in which the model returned two
\* supporting items and one contradicting item, and verification dropped one of
\* each list's items but kept one supporting item.
C1_Witness ==
    /\ Responded
    /\ resp.status = 200
    /\ strictLog = <<FALSE, TRUE>>
    /\ Len(Get(lastResult, "evidence_for").v) = 2
    /\ Len(Get(resp.body, "evidence_for").v) = 1
    /\ Get(lastResult, "evidence_against") = Arr(<<ItemBad>>)
    /\ Get(resp.body, "evidence_against") = Arr(<<>>)

\* C2 (as claimed): in ask-doc, when the first call returns a shape-valid
\* response with an evidence_for item that fails verification, exactly one more
\* call is issued, with strict=true, never a third, and the final evidence_for
\* holds no unverifiable item.
C2_UnverifiableEscalatesOnce ==
    /\ Len(strictLog) <= 2
    /\ (Responded /\ fn = "ask-doc" /\ first.shaped /\ ~first.allVerified) =>
          /\ strictLog = <<FALSE, TRUE>>
          /\ resp.status = 200 =>
                AllVerified(Get(resp.body, "evidence_for"), RequestPages)

\* C3 (as claimed): in ask-doc, when the first (non-strict) call fails, no
\* error is surfaced at that point, exactly one strict call is issued, and an
\* error response is produced only if the strict call fails too.
C3_FirstFailureAbsorbed ==
    (Responded /\ fn = "ask-doc" /\ passes # <<>> /\ passes[1] = "failed") =>
        /\ Len(passes) = 2
        /\ strictLog = <<FALSE, TRUE>>
        /\ ~IsOk(resp.status) => passes[2] = "failed"

\* C4: once the strict call has failed, the request has ended with a non-2xx
\* response that carries an error string and no answer, and no model call is
\* made any more.
C4_StrictFailureIsFinal ==
    /\ [](StrictFailed =>
            /\ Responded
            /\ pc # "await"
            /\ ~IsOk(resp.status)
            /\ Get(resp.body, "answer") = Undef
            /\ IsString(Get(resp.body, "error")))
    /\ [][StrictFailed =>
            /\ invocations' = invocations
            /\ strictLog' = strictLog
            /\ resp' = resp]_vars

\* C4 witness: the strict call that followed a dropped item has failed and the
\* handler has answered 502.
C4_Witness ==
    /\ passes = <<"shaped", "failed">>
    /\ pc = "responded"
    /\ resp.status = 502

\* C5 (as claimed): in ask-doc verification never raises; a response made
\* right after a call that returned a shape-valid value is a 200 whose
\* evidence_for is the model's list without the items that do not verify.
C5_VerificationNeverRaises ==
    (Responded /\ fn = "ask-doc" /\ passes # <<>>
         /\ passes[Len(passes)] = "shaped") =>
        /\ resp.status = 200
        /\ LET Kept(item) == DocItemKept(item, RequestPages)
           IN  Get(resp.body, "evidence_for")
                  = Arr(SelectSeq(Get(lastResult, "evidence_for").v, Kept))

\* C6 (as claimed): in ask-doc, after a strict call that returned a shape-valid
\* response the handler always ends with a 200 Answer that keeps the model's
\* answer and reasoning, and makes no further model call.
C6_StrictShapedAlways200 ==
    (fn = "ask-doc" /\ StrictShaped) =>
        /\ pc # "await"
        /\ Responded
        /\ resp.status = 200
        /\ Get(resp.body, "answer") = Get(lastResult, "answer")
        /\ Get(resp.body, "reasoning") = Get(lastResult, "reasoning")

\* C7 (as claimed): when every evidence_for item of the first result satisfies
\* the Verifier, the result is accepted as final (a 200) and no strict call is
\* issued, in ask-doc and ask-openAI.
C7_AllVerifiedAccepted ==
    (Responded /\ first.shaped /\ first.allVerified) =>
        /\ strictLog = <<FALSE>>
        /\ resp.status = 200

\* C7 (amended): when the filter drops no evidence_for item of the first result
\* (in ask-openAI: every item also passes isEvidenceItem and there are at most
\* boundedEvidence of them), no strict call is issued, so the request makes
\* exactly one orchestrator-level call; the response is made from that first
\* result: a 200 that carries its evidence_for unchanged, or the 500 of the
\* handler's catch when filtering one of the two lists raised.
C7_NothingDroppedNoStrictCall ==
    (first.shaped /\ ~first.dropped) =>
        /\ strictLog = <<FALSE>>
        /\ passes = <<"shaped">>
        /\ pc # "await"
        /\ Responded
        /\ resp.status \in {200, 500}
        /\ resp.status = 200 =>
              Get(resp.body, "evidence_for") = Get(lastResult, "evidence_for")
        /\ resp.status = 500 =>
              LET against == AgainstOrEmpty(lastResult)
                  for == Get(lastResult, "evidence_for")
              IN  IF fn = "ask-doc"
                  THEN \/ filterEvidence(for, RequestPages).threw
                       \/ filterEvidence(against, RequestPages).threw
                  ELSE \/ filterEvidenceOpenAI(for, RequestPages, RequestCap).threw
                       \/ filterEvidenceOpenAI(against, RequestPages, RequestCap).threw

\* C7 witness: ask-openAI accepted a first result with two supporting items,
\* none dropped, and answered 200 after a single call.
C7_Witness ==
    /\ fn = "ask-openAI"
    /\ Responded
    /\ resp.status = 200
    /\ first.shaped
    /\ ~first.dropped
    /\ strictLog = <<FALSE>>
    /\ Len(Get(resp.body, "evidence_for").v) = 2

\* C8 (as claimed): in ask-doc the strict call is issued exactly when the first
\* call failed or evidence_for items were dropped, whatever evidence_against
\* holds.
C8_EscalationOnlyByFailureOrDrop ==
    (Responded /\ fn = "ask-doc" /\ passes # <<>>) =>
        ((Len(strictLog) = 2) <=> (passes[1] = "failed" \/ first.dropped))

\* C9 (as claimed): within one callGemini or callOpenAI invocation there is at
\* most one further model invocation after the first.
C9_AtMostOneLargerRetry == attempt <= 2

\* C9 (amended): within one callGemini or callOpenAI invocation there are at
\* most two further model invocations after the first, and the attempts use
\* growing output budgets: 4096 for the first, 8192 for a second, 12288 for a
\* third (callGemini may go from the first straight to the third).
C9_AtMostTwoLargerRetries ==
    /\ attempt \in 0..3
    /\ pc = "await" =>
          /\ attempt \in 1..3
          /\ budget = <<4096, 8192, 12288>>[attempt]
    /\ invocations <= 3 * Len(strictLog)

\* C9 witness: a call awaits its third model invocation.
C9_Witness ==
    /\ pc = "await"
    /\ attempt = 3
    /\ budget = 12288

\* C10 (as claimed): when the strict retry failed, the message handleAsk stores
\* in askError is the generic try-again message.
C10_RetryFailureIsGeneric ==
    (pc = "settled" /\ StrictFailed) => askError = Str(DEFAULT_ERROR_MESSAGE)

\* the request as the claims describe an invalid one: its question is missing,
\* empty or no string, its pages is no non-empty array, or some page lacks a
\* numeric page or a string text
InvalidRequest(body) ==
    LET asked == Get(body, "question")
        pages == Get(body, "pages")
    IN  \/ ~IsString(asked)
        \/ asked.v = <<>>
        \/ ~IsArray(pages)
        \/ pages.v = <<>>
        \/ \E i \in 1..Len(pages.v) :
              \/ ~IsNumber(Get(pages.v[i], "page"))
              \/ ~IsString(Get(pages.v[i], "text"))

\* C11 (as claimed): a POST whose body is JSON and invalid in one of these ways
\* is answered with 400, and no model call is ever made for it.
C11_InvalidRequestGets400 ==
    (req # None /\ req.method = "POST" /\ req.body # Unparsable
         /\ InvalidRequest(req.body)) =>
        /\ invocations = 0
        /\ strictLog = <<>>
        /\ pc # "await"
        /\ Responded => resp.status = 400

\* the response is a 200 Answer the page accepts, or a non-2xx {error: string}
ValidResponse ==
    \/ /\ resp.status = 200
       /\ IsString(Get(resp.body, "answer"))
       /\ IsString(Get(resp.body, "reasoning"))
       /\ IsString(Get(resp.body, "confidence"))
       /\ Get(resp.body, "confidence").v \in {<<"low">>, <<"medium">>, <<"high">>}
       /\ IsArray(Get(resp.body, "evidence_for"))
       /\ IsArray(Get(resp.body, "evidence_against"))
       /\ IsArray(Get(resp.body, "missing_info"))
       /\ isQaResponse(ResponseData(resp))
    \/ /\ ~IsOk(resp.status)
       /\ resp.body.t = "object"
       /\ DOMAIN resp.body.v = {"error"}
       /\ IsString(resp.body.v.error)

\* ask-doc is handling a POST
DocPost == fn = "ask-doc" /\ req # None /\ req.method = "POST"

\* C12: every POST handled by ask-doc ends with exactly one response, which is
\* either a 200 whose body has string answer and reasoning, a confidence among
\* low, medium, high and arrays for evidence_for, evidence_against and
\* missing_info, so that isQaResponse accepts it, or a non-2xx {error: string}.
\* It ends: while the handler awaits the model it handles whatever the model
\* invocation settles with, and each such step responds or moves on to a later
\* attempt or call, of which there are at most three times two. The response
\* never changes once made.
C12_OneValidResponse ==
    /\ []((DocPost /\ Responded) => ValidResponse)
    /\ []((DocPost /\ pc = "await") =>
            /\ call \in 1..2
            /\ attempt \in 1..3
            /\ ENABLED GeminiReply)
    /\ [][(DocPost /\ pc = "await") =>
            \/ Responded'
            \/ pc' = "await" /\ call' = call /\ attempt' > attempt
            \/ pc' = "await" /\ call' > call]_vars
    /\ [][Responded => resp' = resp]_vars

\* C12 witness: ask-doc answered 200 to a POST although the model left
\* missing_info null and wrote the confidence as "High".
C12_Witness ==
    /\ DocPost
    /\ Responded
    /\ resp.status = 200
    /\ Get(lastResult, "missing_info") = Null
    /\ Get(resp.body, "missing_info") = Arr(<<>>)

\* the confidence the claims expect in the answer for the model's value c
ExpectedConfidence(c) ==
    IF IsString(c) /\ toLowerCase(c.v) \in {<<"low">>, <<"medium">>, <<"high">>}
    THEN Str(toLowerCase(c.v))
    ELSE Str(<<"medium">>)

\* C13 (as claimed): in ask-doc and ask-openAI a model response with valid
\* answer, reasoning and evidence lists is not a failed call whatever its
\* confidence, the strict call follows it only when evidence_for items were
\* dropped, and the confidence returned is the lowercase value when that is
\* low, medium or high, and "medium" otherwise.
C13_OddConfidenceTolerated ==
    /\ \A i \in 1..Len(replies) :
          (replies[i].basic /\ replies[i].arrays) => passes[i] = "shaped"
    /\ (Len(strictLog) = 2 /\ replies[1].basic /\ replies[1].arrays) => first.dropped
    /\ (Responded /\ resp.status = 200) =>
          Get(resp.body, "confidence") = ExpectedConfidence(Get(lastResult, "confidence"))

\* C14 (as claimed): when ask-doc responds after a call that returned a
\* shape-valid value whose evidence_for filters without error, an
\* evidence_against that is no array comes back as [] in a 200 Answer, and so
\* does a missing_info that is no array (evidence_against being one).
C14_NonArrayFieldsCoerced ==
    (Responded /\ fn = "ask-doc" /\ passes # <<>>
         /\ passes[Len(passes)] = "shaped"
         /\ ~filterEvidence(Get(lastResult, "evidence_for"), RequestPages).threw) =>
        /\ ~IsArray(Get(lastResult, "evidence_against")) =>
              /\ resp.status = 200
              /\ Get(resp.body, "evidence_against") = Arr(<<>>)
        /\ (/\ ~IsArray(Get(lastResult, "missing_info"))
            /\ IsArray(Get(lastResult, "evidence_against"))
            /\ ~filterEvidence(Get(lastResult, "evidence_against"), RequestPages).threw) =>
              /\ resp.status = 200
              /\ Get(resp.body, "missing_info") = Arr(<<>>)

(***************************************************************************)
(* Properties of the Quote Verifier and the Evidence Filter.               *)
(***************************************************************************)
\* the length of the leading word of s, which starts with no whitespace
LeadingWord(s) ==
    CHOOSE n \in 1..Len(s) :
        /\ \A i \in 1..n : s[i] \notin Whitespace
        /\ n = Len(s) \/ s[n + 1] \in Whitespace

RECURSIVE WordsOf(_)
\* the words of s: its maximal stretches without whitespace
WordsOf(s) ==
    IF s = <<>> THEN <<>>
    ELSE IF Head(s) \in Whitespace THEN WordsOf(Tail(s))
    ELSE <<SubSeq(s, 1, LeadingWord(s))>>
         \o WordsOf(SubSeq(s, LeadingWord(s) + 1, Len(s)))

RECURSIVE JoinWords(_)
\* the words with one space between neighbours
JoinWords(words) ==
    IF words = <<>> THEN <<>>
    ELSE IF Len(words) = 1 THEN words[1]
    ELSE words[1] \o <<" ">> \o JoinWords(Tail(words))

\* s with every whitespace run collapsed to one space, and trimmed
NormalForm(s) == JoinWords(WordsOf(s))

\* s with every whitespace run collapsed to one space
CollapsedForm(s) ==
    IF s = <<>> THEN <<>>
    ELSE IF WordsOf(s) = <<>> THEN <<" ">>
    ELSE (IF s[1] \in Whitespace THEN <<" ">> ELSE <<>>)
         \o NormalForm(s)
         \o (IF s[Len(s)] \in Whitespace THEN <<" ">> ELSE <<>>)

\* part occurs in text, character for character
OccursIn(part, text) ==
    \E k \in 0..Len(text) :
        /\ k + Len(part) <= Len(text)
        /\ \A m \in 1..Len(part) : text[k + m] = part[m]

\* the entries of the verifyQuote call that carry the page number asked for
ProbeEntries ==
    {i \in 1..Len(probe.pages.v) : Get(probe.pages.v[i], "page") = probe.page}

\* the text of the first of them
ProbeText ==
    Get(probe.pages.v[CHOOSE i \in ProbeEntries : \A j \in ProbeEntries : i <= j],
        "text").v

VerifyQuoteCalled == probe # None /\ probe.op = "verifyQuote" /\ IsString(probe.quote)

\* C15: verifyQuote(pages, page, quote) returns true exactly when an entry with
\* that page number exists and the quote, with every whitespace run collapsed
\* to one space and trimmed, occurs character for character (so case-sensitively)
\* in the equally normalized text of that entry (the first one, should the page
\* number repeat); it returns false when no entry has that page number.
C15_VerifyQuoteIsNormalizedContainment ==
    VerifyQuoteCalled =>
        probe.out = Return(/\ ProbeEntries # {}
                           /\ OccursIn(NormalForm(probe.quote.v), NormalForm(ProbeText)))

\* C15 witness: the quote "A " verified against page 2, whose text is "A".
C15_Witness ==
    /\ VerifyQuoteCalled
    /\ probe.page = Num(2)
    /\ probe.quote = Str(<<"A", " ">>)
    /\ ProbeEntries = {2}
    /\ probe.out = Return(TRUE)

RECURSIVE Inserted(_, _)
\* wide is part with whitespace characters inserted
Inserted(part, wide) ==
    IF wide = <<>> THEN part = <<>>
    ELSE \/ part # <<>> /\ Head(part) = Head(wide) /\ Inserted(Tail(part), Tail(wide))
         \/ Head(wide) \in Whitespace /\ Inserted(part, Tail(wide))

\* the quote of the call is some stretch of the whitespace-collapsed page text
\* with whitespace inserted between its words or around it
QuoteCopiedFromPage ==
    LET collapsed == CollapsedForm(ProbeText)
    IN  \E i \in 1..(Len(collapsed) + 1), j \in 0..Len(collapsed) :
            /\ WordsOf(probe.quote.v) = WordsOf(SubSeq(collapsed, i, j))
            /\ Inserted(SubSeq(collapsed, i, j), probe.quote.v)

\* C16: for every page text T and every substring Q of the whitespace-collapsed
\* form of T, verifyQuote returns true for any quote obtained from Q by
\* inserting whitespace characters between its words or around it.
C16_CopiedQuoteVerifies ==
    (VerifyQuoteCalled /\ ProbeEntries # {} /\ QuoteCopiedFromPage) =>
        probe.out = Return(TRUE)

\* C16 witness: the page reads "a\nA" and the quote is "a A" with a tab and a
\* newline in front, a newline and a tab around the space, and a newline and a
\* space behind.
C16_Witness ==
    /\ VerifyQuoteCalled
    /\ ProbeEntries # {}
    /\ ProbeText = <<"a", "\n", "A">>
    /\ probe.quote = Str(<<"\t", "\n", "a", "\n", " ", "\t", "A", "\n", " ">>)
    /\ QuoteCopiedFromPage
    /\ probe.out = Return(TRUE)

\* a is b with some of its elements left out
IsSubsequence(a, b) ==
    \E f \in [1..Len(a) -> 1..Len(b)] :
        /\ \A i, j \in 1..Len(a) : i < j => f[i] < f[j]
        /\ \A i \in 1..Len(a) : a[i] = b[f[i]]

FilterReturned == probe # None /\ probe.op = "filterEvidence" /\ ~probe.out.threw

\* C17: whenever filterEvidence (of ask-doc or of ask-openAI) returns, its
\* result is a subsequence of its input in the original order, and filtering
\* that result again with the same pages and cap returns it unchanged.
C17_FilterIsIdempotentSubsequence ==
    FilterReturned =>
        /\ IsArray(probe.out.value)
        /\ IsSubsequence(probe.out.value.v, probe.items.v)
        /\ Return(probe.out.value) =
              IF probe.fn = "ask-doc"
              THEN filterEvidence(probe.out.value, probe.pages)
              ELSE filterEvidenceOpenAI(probe.out.value, probe.pages, probe.cap)

\* C17 witness: ask-openAI's filter, with cap 1, made one item of three: the
\* first did not verify and the third fell to the cap.
C17_Witness ==
    /\ FilterReturned
    /\ probe.fn = "ask-openAI"
    /\ probe.cap = 1
    /\ probe.items = Arr(<<ItemBad, ItemGood, ItemGood>>)
    /\ probe.out = Return(Arr(<<ItemGood>>))

\* C18 (as claimed): no item survives filterEvidence, of ask-doc or of
\* ask-openAI, whose quote is empty after normalization, whose normalized quote
\* is longer than 180 characters, or whose page is not a positive integer.
C18_NoMalformedItemSurvives ==
    FilterReturned =>
        \A i \in 1..Len(probe.out.value.v) :
            LET item == probe.out.value.v[i]
            IN  /\ IsString(Get(item, "quote"))
                /\ NormalForm(Get(item, "quote").v) # <<>>
                /\ Len(NormalForm(Get(item, "quote").v)) <= 180
                /\ IsNumber(Get(item, "page"))
                /\ Get(item, "page").v > 0

(***************************************************************************)
(* The Response Extractor: extractJson and what it is made of. A text is a *)
(* sequence of characters in which a run of letters without meaning to the *)
(* code (a word such as "answer" or "hi") is one element, and so is the    *)
(* fence of three backquotes.                                              *)
(***************************************************************************)
Bool(b) == [t |-> "boolean", v |-> b]

\* the three backquotes that open or close a code fence, as one element of a text
Fence == "FENCE"

\* the object {}
EmptyObject == Obj([f \in {} |-> Null])

\* s[i], and "" past the ends
At(s, i) == IF i \in 1..Len(s) THEN s[i] ELSE ""

RECURSIVE SkipFrom(_, _, _)
\* the first index from i on whose character is not in set
SkipFrom(s, i, set) ==
    IF i <= Len(s) /\ s[i] \in set THEN SkipFrom(s, i + 1, set) ELSE i

RECURSIVE Flatten(_)
Flatten(parts) == IF parts = <<>> THEN <<>> ELSE Head(parts) \o Flatten(Tail(parts))

RECURSIVE JoinWith(_, _)
\* Array.prototype.join
JoinWith(parts, sep) ==
    IF parts = <<>> THEN <<>>
    ELSE IF Len(parts) = 1 THEN parts[1]
    ELSE parts[1] \o sep \o JoinWith(Tail(parts), sep)

Digits == <<"0", "1", "2", "3", "4", "5", "6", "7", "8", "9">>

IsDigit(c) == c \in Range(Digits)

DigitOf(c) == (CHOOSE i \in 1..Len(Digits) : Digits[i] = c) - 1

RECURSIVE DigitsOf(_)
\* the decimal digits of a natural number
DigitsOf(n) ==
    IF n < 10 THEN <<Digits[n + 1]>>
    ELSE DigitsOf(n \div 10) \o <<Digits[(n % 10) + 1]>>

\* the whitespace of the JSON grammar
JsonWhitespace == {" ", "\t", "\n", "\r"}

\* the order in which the properties of the objects of the model were created
KeyOrder ==
    <<"answer", "reasoning", "confidence", "evidence_for", "evidence_against",
      "missing_info", "page", "quote", "note", "text", "error", "question",
      "pages", "maxEvidence">>

\* a character of a string as JSON.stringify writes it
EscapeChar(c) ==
    CASE c = "\"" -> <<"\\", "\"">>
      [] c = "\\" -> <<"\\", "\\">>
      [] c = "\n" -> <<"\\", "n">>
      [] c = "\t" -> <<"\\", "t">>
      [] c = "\r" -> <<"\\", "r">>
      [] OTHER -> <<c>>

QuoteJson(str) ==
    <<"\"">> \o Flatten([i \in 1..Len(str) |-> EscapeChar(str[i])]) \o <<"\"">>

RECURSIVE JSONstringify(_)
\* JSON.stringify(x)
JSONstringify(x) ==
    CASE x.t = "string" -> QuoteJson(x.v)
      [] x.t = "number" -> DigitsOf(x.v)
      [] x.t = "boolean" -> IF x.v THEN <<"true">> ELSE <<"false">>
      [] x.t = "array" ->
            <<"[">>
            \o JoinWith([i \in 1..Len(x.v) |->
                            IF x.v[i] = Undef THEN <<"null">> ELSE JSONstringify(x.v[i])],
                        <<",">>)
            \o <<"]">>
      [] x.t = "object" ->
            LET Has(k) == k \in DOMAIN x.v /\ x.v[k] # Undef
                keys == SelectSeq(KeyOrder, Has)
            IN  <<"{">>
                \o JoinWith([i \in 1..Len(keys) |->
                                QuoteJson(<<keys[i]>>) \o <<":">>
                                \o JSONstringify(x.v[keys[i]])],
                            <<",">>)
                \o <<"}">>
      [] OTHER -> <<"null">>

\* what a step of the JSON parser yields: a value and the index after it
Parsed(v, next) == [ok |-> TRUE, v |-> v, next |-> next]
NotParsed == [ok |-> FALSE]

\* the character an escape sequence of a JSON string stands for
EscapeCodes == {"\"", "\\", "/", "n", "t", "r"}

Unescaped(c) ==
    CASE c = "n" -> "\n"
      [] c = "t" -> "\t"
      [] c = "r" -> "\r"
      [] OTHER -> c

RECURSIVE StringBody(_, _, _)
\* a JSON string from index i, its opening quote being at i - 1
StringBody(s, i, acc) ==
    IF i > Len(s) THEN NotParsed
    ELSE IF s[i] = "\"" THEN Parsed(Str(acc), i + 1)
    ELSE IF s[i] = "\\"
         THEN IF At(s, i + 1) \in EscapeCodes
              THEN StringBody(s, i + 2, Append(acc, Unescaped(s[i + 1])))
              ELSE NotParsed
    ELSE IF s[i] \in {"\n", "\t", "\r"} THEN NotParsed
    ELSE StringBody(s, i + 1, Append(acc, s[i]))

RECURSIVE NumberValue(_, _, _)
\* the number written by the digits s[i..j]
NumberValue(s, i, j) ==
    IF i = j THEN DigitOf(s[j])
    ELSE 10 * NumberValue(s, i, j - 1) + DigitOf(s[j])

\* the property name a key stands for; a key that is not a single word of the
\* model has the name "?"
KeyName(key) == IF Len(key) = 1 THEN key[1] ELSE "?"

RECURSIVE ParseValue(_, _)
RECURSIVE ParseMembers(_, _, _)
RECURSIVE ParseElements(_, _, _)

\* a JSON value from index i, after whitespace
ParseValue(s, i) ==
    LET at == SkipFrom(s, i, JsonWhitespace)
        inner == SkipFrom(s, at + 1, JsonWhitespace)
        last == SkipFrom(s, at, Range(Digits)) - 1
    IN  CASE At(s, at) = "{" ->
                IF At(s, inner) = "}" THEN Parsed(EmptyObject, inner + 1)
                ELSE ParseMembers(s, inner, EmptyObject)
          [] At(s, at) = "[" ->
                IF At(s, inner) = "]" THEN Parsed(Arr(<<>>), inner + 1)
                ELSE ParseElements(s, inner, <<>>)
          [] At(s, at) = "\"" -> StringBody(s, at + 1, <<>>)
          [] IsDigit(At(s, at)) ->
                IF s[at] = "0" /\ last > at THEN NotParsed
                ELSE Parsed(Num(NumberValue(s, at, last)), last + 1)
          [] At(s, at) = "true" -> Parsed(Bool(TRUE), at + 1)
          [] At(s, at) = "false" -> Parsed(Bool(FALSE), at + 1)
          [] At(s, at) = "null" -> Parsed(Null, at + 1)
          [] OTHER -> NotParsed

\* the members of an object from the key at index i on
ParseMembers(s, i, obj) ==
    IF At(s, i) # "\"" THEN NotParsed
    ELSE LET key == StringBody(s, i + 1, <<>>)
         IN  IF ~key.ok THEN NotParsed
             ELSE LET colon == SkipFrom(s, key.next, JsonWhitespace)
                  IN  IF At(s, colon) # ":" THEN NotParsed
                      ELSE LET val == ParseValue(s, colon + 1)
                           IN  IF ~val.ok THEN NotParsed
                               ELSE LET after == SkipFrom(s, val.next, JsonWhitespace)
                                        more == Set(obj, KeyName(key.v.v), val.v)
                                    IN  IF At(s, after) = "}" THEN Parsed(more, after + 1)
                                        ELSE IF At(s, after) = ","
                                        THEN ParseMembers(s,
                                                SkipFrom(s, after + 1, JsonWhitespace), more)
                                        ELSE NotParsed

\* the elements of an array from the value at index i on
ParseElements(s, i, acc) ==
    LET val == ParseValue(s, i)
    IN  IF ~val.ok THEN NotParsed
        ELSE LET after == SkipFrom(s, val.next, JsonWhitespace)
             IN  IF At(s, after) = "]" THEN Parsed(Arr(Append(acc, val.v)), after + 1)
                 ELSE IF At(s, after) = ","
                 THEN ParseElements(s, after + 1, Append(acc, val.v))
                 ELSE NotParsed

\* JSON.parse(text)
JSONparse(text) ==
    LET val == ParseValue(text, 1)
    IN  IF val.ok /\ SkipFrom(text, val.next, JsonWhitespace) > Len(text)
        THEN Return(val.v)
        ELSE Throw(SyntaxError)

\* ask-doc lines 145-151
stripCodeFences(raw) ==
    LET trimmed == Trim(raw)
        afterFence == Tail(trimmed)
        afterTag == IF At(afterFence, 1) = "json" THEN Tail(afterFence) ELSE afterFence
        opened == SkipWhitespace(afterTag)
    IN  IF At(trimmed, 1) # Fence THEN trimmed
        ELSE IF At(opened, Len(opened)) = Fence
        THEN DropTrailingWhitespace(SubSeq(opened, 1, Len(opened) - 1))
        ELSE opened

\* text.indexOf(c), counted from 1; 0 when c does not occur
IndexOf(text, c) ==
    IF c \in Range(text)
    THEN CHOOSE i \in 1..Len(text) : text[i] = c /\ \A j \in 1..(i - 1) : text[j] # c
    ELSE 0

\* text.lastIndexOf(c), counted from 1; 0 when c does not occur
LastIndexOf(text, c) ==
    IF c \in Range(text)
    THEN CHOOSE i \in 1..Len(text) :
            text[i] = c /\ \A j \in (i + 1)..Len(text) : text[j] # c
    ELSE 0

\* extractJsonObjectCandidate with text.slice(firstBrace, lastBrace)
extractJsonObjectCandidate_WithoutLastBrace(text) ==
    LET firstBrace == IndexOf(text, "{")
        lastBrace == LastIndexOf(text, "}")
    IN  IF firstBrace = 0 \/ lastBrace = 0 \/ lastBrace <= firstBrace THEN text
        ELSE SubSeq(text, firstBrace, lastBrace - 1)

\* ask-doc lines 153-160
extractJsonObjectCandidate(text) ==
    LET firstBrace == IndexOf(text, "{")
        lastBrace == LastIndexOf(text, "}")
    IN  IF firstBrace = 0 \/ lastBrace = 0 \/ lastBrace <= firstBrace THEN text
        ELSE SubSeq(text, firstBrace, lastBrace)

RECURSIVE UnescapeApostrophes(_)
\* lines 165-166: a backslash and an apostrophe become the apostrophe
UnescapeApostrophes(value) ==
    IF value = <<>> THEN <<>>
    ELSE IF Len(value) >= 2 /\ value[1] = "\\" /\ value[2] = "'"
         THEN <<"'">> \o UnescapeApostrophes(SubSeq(value, 3, Len(value)))
         ELSE <<Head(value)>> \o UnescapeApostrophes(Tail(value))

\* lines 167-168: every double quote gets a backslash in front
EscapeQuotes(value) ==
    Flatten([i \in 1..Len(value) |->
                IF value[i] = "\"" THEN <<"\\", "\"">> ELSE <<value[i]>>])

\* ask-doc lines 163-168
normalizeSingleQuotedContent(value) == EscapeQuotes(UnescapeApostrophes(value))

RECURSIVE ClosingQuote(_, _)
\* where the content of a single-quoted string that starts at index i ends
\* (lines 173 and 178): the index of the first apostrophe that no backslash
\* escapes, 0 when there is none or a backslash stands before a line end
ClosingQuote(s, i) ==
    IF i > Len(s) THEN 0
    ELSE IF s[i] = "'" THEN i
    ELSE IF s[i] = "\\"
         THEN IF i + 1 <= Len(s) /\ s[i + 1] \notin {"\n", "\r"}
              THEN ClosingQuote(s, i + 2)
              ELSE 0
    ELSE ClosingQuote(s, i + 1)

\* the least number of a non-empty set of numbers
Least(S) == CHOOSE x \in S : \A y \in S : x <= y

\* the patterns of lines 173 and 178 at index i: an opener, whitespace, a
\* single-quoted string, whitespace and a closer. The index of the closer when
\* the pattern matches at i, 0 when it does not
MatchEnd(s, i, openers, closers) ==
    LET open == SkipFrom(s, i + 1, Whitespace)
        close == IF s[i] \in openers /\ At(s, open) = "'"
                 THEN ClosingQuote(s, open + 1)
                 ELSE 0
        end == SkipFrom(s, close + 1, Whitespace)
    IN  IF close # 0 /\ At(s, end) \in closers THEN end ELSE 0

\* the text a match that starts at i is replaced by (lines 174 and 179): the
\* string in double quotes with its content normalized, the rest as it was
Requoted(s, i, end) ==
    LET open == SkipFrom(s, i + 1, Whitespace)
        close == ClosingQuote(s, open + 1)
    IN  SubSeq(s, i, open - 1)
        \o <<"\"">>
        \o normalizeSingleQuotedContent(SubSeq(s, open + 1, close - 1))
        \o <<"\"">>
        \o SubSeq(s, close + 1, end)

RECURSIVE Requote(_, _, _, _, _)
\* the global replacement of lines 172-175 and 177-180 from index i on, starts
\* being the indexes where the pattern matches: the leftmost match from i on
\* is replaced and the search goes on behind it
Requote(s, i, starts, openers, closers) ==
    LET ahead == {j \in starts : j >= i}
        from == Least(ahead)
        end == MatchEnd(s, from, openers, closers)
    IN  IF ahead = {} THEN SubSeq(s, i, Len(s))
        ELSE SubSeq(s, i, from - 1)
             \o Requoted(s, from, end)
             \o Requote(s, end + 1, starts, openers, closers)

\* input.replace with the pattern of the given openers and closers
ReplaceSingleQuoted(s, openers, closers) ==
    Requote(s, 1, {j \in 1..Len(s) : MatchEnd(s, j, openers, closers) # 0},
            openers, closers)

\* ask-doc lines 162-181: the keys first, then the string values
repairSingleQuotedJsonSyntax(input) ==
    ReplaceSingleQuoted(ReplaceSingleQuoted(input, {"{", ","}, {":"}),
                        {":"}, {",", "}", "]"})

\* the words of the model that start with t, f or n
StartsWithTFN == {"true", "false", "null", "t", "f", "n", "note", "none"}

\* ask-doc lines 183-214
isLikelyStringTerminator(input, quoteIndex) ==
    LET j == SkipFrom(input, quoteIndex + 1, Whitespace)
        k == SkipFrom(input, j + 1, Whitespace)
    IN  IF j > Len(input) THEN TRUE
        ELSE IF input[j] \in {":", "}", "]"} THEN TRUE
        ELSE IF input[j] = ","
        THEN IF k > Len(input) THEN TRUE
             ELSE \/ input[k] \in {"\"", "{", "[", "}", "]", "-"}
                  \/ IsDigit(input[k])
                  \/ input[k] \in StartsWithTFN
        ELSE FALSE

\* one iteration of the loop of sanitizeJsonStrings (lines 222-267): the
\* variables after it, from the variables st before it and the index i
SanitizeStep(input, i, st) ==
    LET ch == input[i]
        After(inString, escaped, added) ==
            [inString |-> inString, escaped |-> escaped, out |-> st.out \o added]
    IN  CASE ~st.inString -> After(ch = "\"", st.escaped, <<ch>>)
          [] st.inString /\ st.escaped -> After(TRUE, FALSE, <<ch>>)
          [] st.inString /\ ~st.escaped /\ ch = "\\" -> After(TRUE, TRUE, <<ch>>)
          [] st.inString /\ ~st.escaped /\ ch = "\n" -> After(TRUE, FALSE, <<"\\", "n">>)
          [] st.inString /\ ~st.escaped /\ ch = "\r" -> After(TRUE, FALSE, <<>>)
          [] st.inString /\ ~st.escaped /\ ch = "\t" -> After(TRUE, FALSE, <<"\\", "t">>)
          [] st.inString /\ ~st.escaped /\ ch = "\"" ->
                IF isLikelyStringTerminator(input, i)
                THEN After(FALSE, FALSE, <<ch>>)
                ELSE After(TRUE, FALSE, <<"\\", "\"">>)
          [] OTHER -> After(TRUE, FALSE, <<ch>>)

RECURSIVE Sanitize(_, _, _, _)
\* the iterations lo..hi of the loop, in order, from the variables st: those
\* of the first half and, once they are done, those of the second half
Sanitize(input, lo, hi, st) ==
    IF lo > hi THEN st
    ELSE IF lo = hi THEN SanitizeStep(input, lo, st)
    ELSE LET mid == (lo + hi) \div 2
             half == Sanitize(input, lo, mid, st)
         IN  IF Len(half.out) >= Len(st.out)
             THEN Sanitize(input, mid + 1, hi, half)
             ELSE half

\* ask-doc lines 216-280
sanitizeJsonStrings(input) ==
    LET end == Sanitize(input, 1, Len(input),
                        [inString |-> FALSE, escaped |-> FALSE, out |-> <<>>])
    IN  IF end.inString
        THEN (IF end.escaped /\ At(end.out, Len(end.out)) = "\\"
              THEN SubSeq(end.out, 1, Len(end.out) - 1)
              ELSE end.out) \o <<"\"">>
        ELSE end.out

\* whether the pattern of line 330 matches at index i: a comma, whitespace and
\* a closing brace or bracket
TrailingComma(s, i) ==
    s[i] = "," /\ At(s, SkipFrom(s, i + 1, Whitespace)) \in {"}", "]"}

RECURSIVE DropTrailingCommas(_, _, _)
\* the global replacement of line 330 from index i on, starts being the
\* indexes where the pattern matches: of a match only the brace or bracket
\* stays
DropTrailingCommas(s, i, starts) ==
    LET ahead == {j \in starts : j >= i}
        from == Least(ahead)
        end == SkipFrom(s, from + 1, Whitespace)
    IN  IF ahead = {} THEN SubSeq(s, i, Len(s))
        ELSE SubSeq(s, i, from - 1) \o <<s[end]>>
             \o DropTrailingCommas(s, end + 1, starts)

\* line 330
removeTrailingCommas(s) ==
    DropTrailingCommas(s, 1, {j \in 1..Len(s) : TrailingComma(s, j)})

\* ask-doc lines 310-343: the value returned or the error thrown, and whether
\* the strict parse or the repair produced it
extractJson(raw) ==
    LET cleaned == extractJsonObjectCandidate(stripCodeFences(raw))
        strict == JSONparse(cleaned)
        repaired == removeTrailingCommas(
                        sanitizeJsonStrings(repairSingleQuotedJsonSyntax(cleaned)))
    IN  IF ~strict.threw
        THEN [path |-> "strict", result |-> strict]
        ELSE [path |-> "repair", result |-> JSONparse(repaired)]

(***************************************************************************)
(* extractJson on its own: single calls on texts a model may write.        *)
(***************************************************************************)
\* a character of a string as a model that writes single-quoted strings
\* writes it
SingleQuotedChar(c) ==
    CASE c = "'" -> <<"\\", "'">>
      [] c = "\\" -> <<"\\", "\\">>
      [] c = "\n" -> <<"\\", "n">>
      [] OTHER -> <<c>>

QuoteSingle(str) ==
    <<"'">> \o Flatten([i \in 1..Len(str) |-> SingleQuotedChar(str[i])]) \o <<"'">>

RECURSIVE SingleQuoted(_)
\* the value x written with single-quoted keys and single-quoted strings, a
\* space after every colon and comma
SingleQuoted(x) ==
    CASE x.t = "string" -> QuoteSingle(x.v)
      [] x.t = "array" ->
            <<"[">>
            \o JoinWith([i \in 1..Len(x.v) |-> SingleQuoted(x.v[i])], <<",", " ">>)
            \o <<"]">>
      [] x.t = "object" ->
            LET Has(k) == k \in DOMAIN x.v
                keys == SelectSeq(KeyOrder, Has)
            IN  <<"{">>
                \o JoinWith([i \in 1..Len(keys) |->
                                QuoteSingle(<<keys[i]>>) \o <<":", " ">>
                                \o SingleQuoted(x.v[keys[i]])],
                            <<",", " ">>)
                \o <<"}">>
      [] OTHER -> JSONstringify(x)

\* the text inside a json code fence
Fenced(text) == <<Fence, "json", "\n">> \o text \o <<"\n", Fence>>

\* the characters of the answers written as JSON
AnswerAlphabet == {"hi", " ", "\"", "\\", "\n", "'", "{", "}", ",", Fence}

\* the characters of the answers written in single quotes
QuotedAlphabet == {"hi", " ", "\"", "'", ",", "}"}

\* an Answer object
AnswerOf(answer, for, missing) ==
    Obj([answer |-> Str(answer), reasoning |-> Str(<<"ok">>),
         confidence |-> Str(<<"high">>), evidence_for |-> Arr(for),
         evidence_against |-> Arr(<<>>), missing_info |-> Arr(missing)])

\* the example of the repair: answer is He said "hi"
SaidHi == AnswerOf(<<"He", " ", "said", " ", "\"", "hi", "\"">>, <<>>, <<>>)

\* the texts given to extractJson, each with the object it was written from
\* and the way it was written
ExtractInputs ==
    {[style |-> "stringify", source |-> AnswerOf(a, f, m),
      raw |-> JSONstringify(AnswerOf(a, f, m))] :
        a \in Strings(AnswerAlphabet, MaxAnswer),
        f \in {<<>>, <<ItemGood>>},
        m \in {<<>>, <<Str(<<"dose">>)>>}}
    \cup
    {[style |-> "single-quoted", source |-> AnswerOf(a, f, m),
      raw |-> Fenced(SingleQuoted(AnswerOf(a, f, m)))] :
        a \in Strings(QuotedAlphabet, MaxAnswer),
        f \in {<<>>, <<ItemGood>>},
        m \in {<<>>, <<Str(<<"dose">>)>>}}
    \cup
    {[style |-> "single-quoted", source |-> SaidHi, raw |-> Fenced(SingleQuoted(SaidHi))]}

\* one call of extractJson
ExtractJsonCall ==
    /\ probe = None
    /\ \E input \in ExtractInputs :
          probe' = [op |-> "extractJson", style |-> input.style,
                    source |-> input.source, raw |-> input.raw,
                    out |-> extractJson(input.raw)]
    /\ UNCHANGED pipeline

\* text.match of a one-character pattern with the g flag: how often c occurs
Matches(text, c) == Cardinality({i \in 1..Len(text) : text[i] = c})

\* ask-doc lines 302-308
looksLikeTruncatedJson(text) ==
    LET candidate == Trim(extractJsonObjectCandidate(stripCodeFences(text)))
        openBraces == Matches(candidate, "{")
        closeBraces == Matches(candidate, "}")
    IN  IF candidate = <<>> THEN TRUE
        ELSE At(candidate, Len(candidate)) # "}" \/ closeBraces < openBraces

\* the characters of the model outputs given to looksLikeTruncatedJson
OutputAlphabet == {"{", "}", "[", "]", "x", " "}

\* one call of looksLikeTruncatedJson
TruncatedCall ==
    /\ probe = None
    /\ \E text \in Strings(OutputAlphabet, MaxOutput) :
          probe' = [op |-> "looksLikeTruncatedJson", raw |-> text,
                    out |-> looksLikeTruncatedJson(text)]
    /\ UNCHANGED pipeline

ExtractNext == ExtractJsonCall \/ TruncatedCall

ExtractSpec == Init /\ [][ExtractNext]_vars

(***************************************************************************)
(* Properties of the Response Extractor.                                   *)
(***************************************************************************)
ExtractCalled(style) == probe # None /\ probe.op = "extractJson" /\ probe.style = style

\* C19: for a well-formed Answer object a, extractJson(JSON.stringify(a)) is an
\* object equal to a, and it is the strict parse that returns it: the repair
\* stages are not applied to it.
C19_StringifyRoundTrip ==
    ExtractCalled("stringify") =>
        probe.out = [path |-> "strict", result |-> Return(probe.source)]

\* C19 witness: the round trip of an Answer whose answer is a backslash
\* followed by a double quote, with an evidence item and a missing_info entry.
C19_Witness ==
    /\ ExtractCalled("stringify")
    /\ probe.source = AnswerOf(<<"\\", "\"">>, <<ItemGood>>, <<Str(<<"dose">>)>>)
    /\ probe.out.path = "strict"
    /\ probe.out.result = Return(probe.source)

\* C20 (as claimed): from a text in a json fence whose object is written with
\* single-quoted keys and single-quoted string values extractJson recovers the
\* object, a double quote inside a value being kept as a character of the
\* string.
C20_SingleQuotedObjectRecovered ==
    ExtractCalled("single-quoted") => probe.out.result = Return(probe.source)

(***************************************************************************)
(* The page (page.tsx) and the viewer (PdfViewerPane.tsx): the handlers    *)
(* and the deferred work they start. Each action is one task of the event  *)
(* loop: a handler with the render that follows it, a settled promise, a   *)
(* timer or an animation-frame callback.                                   *)
(***************************************************************************)
HIGHLIGHT_MAX_ATTEMPTS == 20

HIGHLIGHT_RETRY_MS == 80

\* PdfViewerPane.tsx lines 494-496
normalizeWS(value) == Trim(CollapseWhitespace(value))

\* what the question box may hold
Questions == {<<>>, <<" ">>, <<"q">>}

\* the first evidence item of a response: a page and a quote, which may be
\* blank
FirstEvidence ==
    {[page |-> 1, quote |-> <<"q">>], [page |-> 2, quote |-> <<"q">>],
     [page |-> 1, quote |-> <<" ">>]}

\* the evidence_for of a response: no item, one item, or a quote of page 1
\* followed by an item whose quote is blank
EvidenceFor ==
    {<<>>} \cup {<<e>> : e \in FirstEvidence}
    \cup {<<[page |-> 1, quote |-> <<"q">>], [page |-> 2, quote |-> <<" ">>]>>}

\* the page texts extracted from document doc
PageTexts(doc) == Arr(<<[page |-> 1, doc |-> doc]>>)

\* s without its i-th element
Without(s, i) == SubSeq(s, 1, i - 1) \o SubSeq(s, i + 1, Len(s))

\* the highlight state of the viewer, as one value
Highlights ==
    [active |-> activeHighlights, timers |-> pendingHighlightTimers,
     attempts |-> attempts]

SetHighlights(h) ==
    /\ activeHighlights' = h.active
    /\ pendingHighlightTimers' = h.timers
    /\ attempts' = h.attempts

\* a request to highlight: stale and superseded are observations, stale for
\* a request made before the highlights were cleared or the file replaced,
\* superseded for one made before a later call of highlightQuote
Request(page, quote, stale) ==
    [page |-> page, quote |-> quote, stale |-> stale, superseded |-> FALSE]

\* observation: the deferred work that exists is from before a clearing or a
\* replacement
Staled(items) == [i \in DOMAIN items |-> [items[i] EXCEPT !.stale = TRUE]]

StaledTimers(h) == [h EXCEPT !.timers = {[t EXCEPT !.stale = TRUE] : t \in @}]

\* observation: what exists is from before this call of highlightQuote
Superseded(h) ==
    [h EXCEPT !.timers = {[t EXCEPT !.superseded = TRUE] : t \in @},
              !.active = [i \in DOMAIN @ |-> [@[i] EXCEPT !.superseded = TRUE]]]

\* lines 820-825
clearPendingHighlightTimers(h) == [h EXCEPT !.timers = {}]

\* clearAllHighlights without its call of clearPendingHighlightTimers
clearAllHighlights_KeepTimers(h) == [h EXCEPT !.active = <<>>]

\* lines 827-830
clearAllHighlights(h) == [clearPendingHighlightTimers(h) EXCEPT !.active = <<>>]

\* what buildHighlightForQuote (lines 840-880) may return: the text layer is
\* there only while a loaded document is shown
BuildResults ==
    IF error = Null /\ pdfDocument # 0 THEN {"retry", "not_found", "ready"}
    ELSE {"retry"}

\* runAttempt(n) (lines 884-926) for request r, result being what
\* buildHighlightForQuote returned
runAttempt(h, r, n, result) ==
    LET made == [h EXCEPT !.attempts = @ + 1]
        timer == [page |-> r.page, quote |-> r.quote, attempt |-> n + 1,
                  delay |-> HIGHLIGHT_RETRY_MS, stale |-> r.stale,
                  superseded |-> r.superseded]
        highlight == [page |-> r.page, quote |-> r.quote, stale |-> r.stale,
                      superseded |-> r.superseded]
    IN  CASE result = "ready" -> [made EXCEPT !.active = <<highlight>>]
          [] result = "retry" /\ n < HIGHLIGHT_MAX_ATTEMPTS ->
                [made EXCEPT !.timers = {t \in @ : t.page # r.page} \cup {timer}]
          [] OTHER -> made

\* lines 882-931
tryApplyHighlight(h, r, result) == runAttempt([h EXCEPT !.attempts = 0], r, 0, result)

\* highlightQuote without the test of line 1021
highlightQuote_AnyQuote(h, r, result) ==
    tryApplyHighlight(clearAllHighlights(Superseded(h)), r, result)

\* lines 1019-1025
highlightQuote(h, r, result) ==
    IF normalizeWS(r.quote) = <<>> THEN h
    ELSE tryApplyHighlight(clearAllHighlights(Superseded(h)), r, result)

\* an effect without cleanup
cleanup_Nothing(runs) == runs

\* the cleanup of the extraction effect (lines 586-588) for the runs of a
\* LoadedPdfDocument that unmounts
cleanup(runs) == {[r EXCEPT !.cancelled = TRUE] : r \in runs}

\* line 22 without its test of loading
CanAsk_WhileLoading ==
    /\ Trim(question) # <<>>
    /\ pagesText # Null
    /\ Len(pagesText.v) # 0

\* handleAsk line 22: whether it goes on
CanAsk ==
    /\ Trim(question) # <<>>
    /\ ~loading
    /\ pagesText # Null
    /\ Len(pagesText.v) # 0

\* handleAsk without the comparison of line 34
IsStale_Never(a) == FALSE

\* handleAsk line 34, for the request a
IsStale(a) == a.version # documentVersion

server == <<pc, origin, fn, req, call, attempt, budget, parseErr, strictLog,
            invocations, passes, first, lastResult, resp, replies, probe>>

\* observation: highlightQuote is called for r while a retry of an earlier
\* call is pending, or with a blank quote while a highlight is active
Overlap(r) ==
    seen
    \cup (IF normalizeWS(r.quote) # <<>> /\ pendingHighlightTimers # {}
          THEN {"overlap"} ELSE {})
    \cup (IF normalizeWS(r.quote) = <<>> /\ activeHighlights # <<>>
          THEN {"blank quote"} ELSE {})

\* QaPane: the user edits the question (the box is disabled while loading)
QuestionChanges ==
    /\ ~loading
    /\ \E q \in Questions \ {question} : question' = q
    /\ UNCHANGED <<server, seen, loading, response, askError, pagesText, documentVersion,
                   asks, frames, error, fileUrl, pdfDocument, extractions,
                   activeHighlights, pendingHighlightTimers, attempts>>

\* page.tsx lines 66-71
HandleSelectExample ==
    /\ question' = <<"q">>
    /\ response' = Null
    /\ askError' = Null
    /\ SetHighlights(clearAllHighlights(Highlights))
    /\ frames' = Staled(frames)
    /\ UNCHANGED <<server, seen, loading, pagesText, documentVersion, asks, error,
                   fileUrl, pdfDocument, extractions>>

\* page.tsx lines 73-75
HandleClearHighlights ==
    /\ SetHighlights(clearAllHighlights(Highlights))
    /\ frames' = Staled(frames)
    /\ UNCHANGED <<server, seen, question, loading, response, askError, pagesText,
                   documentVersion, asks, error, fileUrl, pdfDocument,
                   extractions>>

\* handleAsk up to its await (page.tsx lines 20-33)
AskStarts ==
    /\ CanAsk
    /\ Len(frames) < MaxFrames
    /\ asks' = Append(asks, [version |-> documentVersion, pages |-> pagesText])
    /\ loading' = TRUE
    /\ response' = Null
    /\ askError' = Null
    /\ SetHighlights(clearAllHighlights(Highlights))
    /\ frames' = Staled(frames)
    /\ UNCHANGED <<server, seen, question, pagesText, documentVersion, error, fileUrl,
                   pdfDocument, extractions>>

\* askQuestion resolves and handleAsk runs to its end (lines 33-54, 61-63)
AskResolves ==
    \E i \in DOMAIN asks, evidence \in EvidenceFor :
        /\ asks' = Without(asks, i)
        /\ loading' = FALSE
        /\ IF IsStale(asks[i])
           THEN UNCHANGED <<response, frames>>
           ELSE /\ response' = Obj([version |-> asks[i].version,
                                    pages |-> asks[i].pages,
                                    evidence_for |-> evidence])
                /\ frames' = IF evidence = <<>> THEN frames
                             ELSE Append(frames,
                                    Request(evidence[1].page, evidence[1].quote, FALSE))
        /\ seen' = IF IsStale(asks[i]) THEN seen \cup {"stale response"} ELSE seen
        /\ UNCHANGED <<server, question, askError, pagesText, documentVersion, error,
                       fileUrl, pdfDocument, extractions, activeHighlights,
                       pendingHighlightTimers, attempts>>

\* AskRejects without the finally block of handleAsk
AskRejects_LoadingStays ==
    \E i \in DOMAIN asks :
        /\ asks' = Without(asks, i)
        /\ askError' = Str(DEFAULT_ERROR_MESSAGE)
        /\ seen' = IF IsStale(asks[i]) THEN seen \cup {"stale failure"} ELSE seen
        /\ UNCHANGED <<server, question, loading, response, pagesText, documentVersion,
                       frames, error, fileUrl, pdfDocument, extractions,
                       activeHighlights, pendingHighlightTimers, attempts>>

\* askQuestion rejects and handleAsk runs to its end (lines 55-63)
AskRejects ==
    \E i \in DOMAIN asks :
        /\ asks' = Without(asks, i)
        /\ askError' = Str(DEFAULT_ERROR_MESSAGE)
        /\ loading' = FALSE
        /\ seen' = IF IsStale(asks[i]) THEN seen \cup {"stale failure"} ELSE seen
        /\ UNCHANGED <<server, question, response, pagesText, documentVersion,
                       frames, error, fileUrl, pdfDocument, extractions,
                       activeHighlights, pendingHighlightTimers, attempts>>

\* the animation-frame callback of handleAsk (lines 50-53)
AutoHighlightFrame ==
    \E i \in DOMAIN frames, result \in BuildResults :
        /\ frames' = Without(frames, i)
        /\ SetHighlights(highlightQuote(Highlights, frames[i], result))
        /\ seen' = Overlap(frames[i])
        /\ UNCHANGED <<server, question, loading, response, askError, pagesText,
                       documentVersion, asks, error, fileUrl, pdfDocument,
                       extractions>>

\* page.tsx lines 77-86: the user clicks the evidence card of the response
HandleEvidenceClick ==
    /\ response # Null
    /\ \E i \in DOMAIN response.v.evidence_for, result \in BuildResults :
          /\ SetHighlights(highlightQuote(Highlights,
                Request(response.v.evidence_for[i].page,
                        response.v.evidence_for[i].quote, FALSE), result))
          /\ seen' = Overlap(response.v.evidence_for[i])
    /\ UNCHANGED <<server, question, loading, response, askError, pagesText,
                   documentVersion, asks, frames, error, fileUrl, pdfDocument,
                   extractions>>

\* the timer of a retry fires (lines 905-908)
RetryTimerFires ==
    \E t \in pendingHighlightTimers, result \in BuildResults :
        /\ SetHighlights(runAttempt(
                [Highlights EXCEPT !.timers = {u \in @ : u.page # t.page}],
                t, t.attempt, result))
        /\ UNCHANGED <<server, seen, question, loading, response, askError, pagesText,
                       documentVersion, asks, frames, error, fileUrl, pdfDocument,
                       extractions>>

\* handleFile with a PDF (lines 960-973), handleFileChange of the page (lines
\* 100-109) and the render that follows: PdfLoader gets the new url and
\* LoadedPdfDocument unmounts
HandleFilePdf ==
    /\ documentVersion < MaxFiles
    /\ SetHighlights(clearAllHighlights(Highlights))
    /\ frames' = Staled(frames)
    /\ error' = Null
    /\ fileUrl' = documentVersion + 1
    /\ documentVersion' = documentVersion + 1
    /\ pagesText' = Arr(<<>>)
    /\ response' = Null
    /\ askError' = Null
    /\ pdfDocument' = 0
    /\ extractions' = cleanup(extractions)
    /\ UNCHANGED <<server, seen, question, loading, asks>>

\* handleFile with a file that is no PDF (lines 953-957), handleFileChange and
\* handlePagesTextError of the page and the render that follows: the message
\* is shown in place of the viewer
HandleFileOther ==
    /\ documentVersion < MaxFiles
    /\ documentVersion' = documentVersion + 1
    /\ pagesText' = Null
    /\ response' = Null
    /\ askError' = Null
    /\ error' = Str(<<"Please upload a PDF file.">>)
    /\ pdfDocument' = 0
    /\ extractions' = cleanup(extractions)
    /\ SetHighlights(StaledTimers(Highlights))
    /\ frames' = Staled(frames)
    /\ UNCHANGED <<server, seen, question, loading, asks, fileUrl>>

\* PdfLoader has loaded the file: LoadedPdfDocument mounts and its effect
\* starts extractPagesText (lines 548-584)
PdfLoads ==
    /\ error = Null
    /\ fileUrl # 0
    /\ pdfDocument = 0
    /\ pdfDocument' = fileUrl
    /\ extractions' = extractions \cup {[doc |-> fileUrl, cancelled |-> FALSE]}
    /\ UNCHANGED <<server, seen, question, loading, response, askError, pagesText,
                   documentVersion, asks, frames, error, fileUrl, activeHighlights,
                   pendingHighlightTimers, attempts>>

\* PdfLoader fails to load the file: onError (lines 1170-1175) and
\* handlePagesTextError of the page
PdfLoadFails ==
    /\ error = Null
    /\ fileUrl # 0
    /\ pdfDocument = 0
    /\ error' = Str(<<"Failed to load PDF">>)
    /\ pagesText' = Null
    /\ askError' = Null
    /\ UNCHANGED <<server, seen, question, loading, response, documentVersion, asks,
                   frames, fileUrl, pdfDocument, extractions, activeHighlights,
                   pendingHighlightTimers, attempts>>

\* a run of extractPagesText has read its last page (lines 573-575) and
\* handlePagesTextExtracted of the page (lines 88-92)
ExtractionCompletes ==
    \E run \in extractions :
        /\ extractions' = extractions \ {run}
        /\ IF run.cancelled
           THEN UNCHANGED <<pagesText, askError>>
           ELSE pagesText' = PageTexts(run.doc) /\ askError' = Null
        /\ seen' = IF run.cancelled THEN seen \cup {"cancelled extraction"} ELSE seen
        /\ UNCHANGED <<server, question, loading, response, documentVersion, asks,
                       frames, error, fileUrl, pdfDocument, activeHighlights,
                       pendingHighlightTimers, attempts>>

\* a run of extractPagesText fails (lines 576-581) and handlePagesTextError of
\* the page (lines 94-98)
ExtractionFails ==
    \E run \in extractions :
        /\ extractions' = extractions \ {run}
        /\ IF run.cancelled
           THEN UNCHANGED <<pagesText, askError>>
           ELSE pagesText' = Null /\ askError' = Null
        /\ UNCHANGED <<server, seen, question, loading, response, documentVersion, asks,
                       frames, error, fileUrl, pdfDocument, activeHighlights,
                       pendingHighlightTimers, attempts>>

BrowserNext ==
    \/ QuestionChanges
    \/ HandleSelectExample
    \/ HandleClearHighlights
    \/ AskStarts
    \/ AskResolves
    \/ AskRejects
    \/ AutoHighlightFrame
    \/ HandleEvidenceClick
    \/ RetryTimerFires
    \/ HandleFilePdf
    \/ HandleFileOther
    \/ PdfLoads
    \/ PdfLoadFails
    \/ ExtractionCompletes
    \/ ExtractionFails

BrowserSpec == Init /\ [][BrowserNext]_vars

(***************************************************************************)
(* The quote-to-region locator of PdfViewerPane.tsx. A text is the         *)
(* sequence of its characters; offsets are counted from 0 as in the code.  *)
(***************************************************************************)
\* the characters of a string literal
Chars(str) == [i \in 1..Len(str) |-> SubSeq(str, i, i)]

UpperLetters == Chars("ABCDEFGHIJKLMNOPQRSTUVWXYZ")

LowerLetters == Chars("abcdefghijklmnopqrstuvwxyz")

\* the characters that [a-z0-9] matches under the i flag
Alphanumeric == Range(UpperLetters) \cup Range(LowerLetters) \cup Range(Chars("0123456789"))

\* the lower case of a character whose mapping does not depend on its context
LowerChar(c) ==
    IF c \in Range(UpperLetters)
    THEN LowerLetters[CHOOSE i \in DOMAIN UpperLetters : UpperLetters[i] = c]
    ELSE IF c = "Ο" THEN "ο"
    ELSE c

\* the characters with a case, and those a case mapping looks through
Cased == Range(UpperLetters) \cup Range(LowerLetters) \cup {"Ο", "ο", "Σ", "σ", "ς"}

CaseIgnorable == {"'", ".", ":"}

\* Final_Sigma of the Unicode special casing: the character at i comes after a
\* cased letter and is not followed by one, case-ignorable characters aside
FinalSigma(text, i) ==
    /\ \E j \in 1..(i - 1) :
          text[j] \in Cased /\ \A k \in (j + 1)..(i - 1) : text[k] \in CaseIgnorable
    /\ ~\E j \in (i + 1)..Len(text) :
          text[j] \in Cased /\ \A k \in (i + 1)..(j - 1) : text[k] \in CaseIgnorable

\* toLowerCase mapping every character by itself
Lowered_CharByChar(text) ==
    [i \in 1..Len(text) |-> IF text[i] = "Σ" THEN "σ" ELSE LowerChar(text[i])]

\* String.prototype.toLowerCase: the Unicode default case conversion, in which
\* a capital sigma becomes the final sigma at the end of a word
Lowered(text) ==
    [i \in 1..Len(text) |->
        IF text[i] = "Σ" THEN (IF FinalSigma(text, i) THEN "ς" ELSE "σ")
        ELSE LowerChar(text[i])]

IsInk(c) == c \notin Whitespace

\* removeWhitespace: value.replace(/\s+/g, "")
removeWhitespace(value) == SelectSeq(value, IsInk)

\* text.indexOf(part, from): the offset of the first occurrence at or after
\* from, -1 when there is none
IndexOfText(text, part, from) ==
    LET found == {i \in from..(Len(text) - Len(part)) :
                      SubSeq(text, i + 1, i + Len(part)) = part}
    IN  IF found = {} THEN -1 ELSE Least(found)

RECURSIVE AlphanumericRuns(_, _)
\* quote.match(/[a-z0-9]+/gi) from the character at index i (counted from 1):
\* the maximal runs of letters and digits
AlphanumericRuns(text, i) ==
    IF i > Len(text) THEN <<>>
    ELSE IF text[i] \notin Alphanumeric THEN AlphanumericRuns(text, i + 1)
    ELSE LET stop == Least({j \in (i + 1)..(Len(text) + 1) :
                               j > Len(text) \/ text[j] \notin Alphanumeric})
         IN  <<SubSeq(text, i, stop - 1)>> \o AlphanumericRuns(text, stop)

RECURSIVE Distinct(_)
\* the members of a Set in insertion order: each value at its first place
Distinct(s) ==
    IF s = <<>> THEN <<>>
    ELSE LET before == Distinct(SubSeq(s, 1, Len(s) - 1))
         IN  IF s[Len(s)] \in Range(before) THEN before ELSE Append(before, s[Len(s)])

\* sort((a, b) => b.length - a.length): longest first, equal lengths in their
\* earlier order (the sort is stable)
SortByLength(s) ==
    LET Rank(i) == 1 + Cardinality({j \in DOMAIN s :
                        \/ Len(s[j]) > Len(s[i])
                        \/ Len(s[j]) = Len(s[i]) /\ j < i})
    IN  [k \in DOMAIN s |-> s[CHOOSE i \in DOMAIN s : Rank(i) = k]]

IsSignificant(token) == Len(token) >= 4

\* extractSignificantTokens
extractSignificantTokens(quote) ==
    LET matches == AlphanumericRuns(quote, 1)
        lowered == [i \in DOMAIN matches |-> Lowered(matches[i])]
        sorted  == SortByLength(Distinct(SelectSeq(lowered, IsSignificant)))
    IN  SubSeq(sorted, 1, IF Len(sorted) < 6 THEN Len(sorted) ELSE 6)

RECURSIVE CollectFrom(_, _, _, _)
\* the loop of collectSpanEntries from span i, with the lengths of the
\* combined and the compact text so far
CollectFrom(spans, i, combinedLength, compactLength) ==
    IF i > Len(spans) THEN <<>>
    ELSE LET text        == Lowered(normalizeWS(spans[i]))
             compactText == removeWhitespace(text)
             end         == combinedLength + Len(text)
             compactEnd  == compactLength + Len(compactText)
         IN  IF text = <<>> \/ compactText = <<>>
             THEN CollectFrom(spans, i + 1, combinedLength, compactLength)
             ELSE <<[span |-> i, text |-> text, compactText |-> compactText,
                     start |-> combinedLength, end |-> end,
                     compactStart |-> compactLength, compactEnd |-> compactEnd]>>
                  \o CollectFrom(spans, i + 1, end + 1, compactEnd)

\* collectSpanEntries, of the text contents of the spans of a text layer
collectSpanEntries(spans) == CollectFrom(spans, 1, 0, 0)

RECURSIVE Occurrences(_, _, _)
\* the while loop of lines 695-708: the offsets at which token is found in
\* text, each search starting where the last occurrence ended
Occurrences(text, token, startAt) ==
    IF startAt >= Len(text) THEN <<>>
    ELSE LET tokenStart == IndexOfText(text, token, startAt)
         IN  IF tokenStart < 0 THEN <<>>
             ELSE <<tokenStart>> \o Occurrences(text, token, tokenStart + Len(token))

\* lines 686-711: the entries that hold a token, then for each token and each
\* of its occurrences in the compact text the entries it runs over, each
\* entry once, in the order in which the Set received them
TokenMatches(entries, compactText, tokens) ==
    LET HoldsToken(e) == \E k \in DOMAIN tokens : Includes(e.text, tokens[k])
        compactTokens == SelectSeq([k \in DOMAIN tokens |-> removeWhitespace(tokens[k])],
                                   LAMBDA t : t # <<>>)
        Over(token, tokenStart) ==
            SelectSeq(entries, LAMBDA e : /\ e.compactEnd > tokenStart
                                          /\ e.compactStart < tokenStart + Len(token))
        OfToken(token) ==
            LET at == Occurrences(compactText, token, 0)
            IN  Flatten([k \in DOMAIN at |-> Over(token, at[k])])
    IN  Distinct(SelectSeq(entries, HoldsToken)
                 \o Flatten([k \in DOMAIN compactTokens |-> OfToken(compactTokens[k])]))

\* what findMatchingEntries returns, with the stage that returned it
Found(stage, entries) == [stage |-> stage, entries |-> entries]

\* findMatchingEntries without its compact stage
findMatchingEntries_NoCompact(entries, normalizedQuote) ==
    LET combinedText      == JoinWith([i \in DOMAIN entries |-> entries[i].text], <<" ">>)
        compactText       == Flatten([i \in DOMAIN entries |-> entries[i].compactText])
        exactMatchStart   == IndexOfText(combinedText, normalizedQuote, 0)
        exactMatchEnd     == exactMatchStart + Len(normalizedQuote)
        tokens            == extractSignificantTokens(normalizedQuote)
    IN  IF normalizedQuote = <<>> THEN Found("none", <<>>)
        ELSE IF exactMatchStart >= 0
        THEN Found("exact", SelectSeq(entries, LAMBDA e :
                        e.end > exactMatchStart /\ e.start < exactMatchEnd))
        ELSE IF tokens = <<>> THEN Found("tokens", <<>>)
        ELSE Found("tokens", TokenMatches(entries, compactText, tokens))

\* findMatchingEntries trying the compact text before the combined text
findMatchingEntries_CompactFirst(entries, normalizedQuote) ==
    LET combinedText      == JoinWith([i \in DOMAIN entries |-> entries[i].text], <<" ">>)
        compactText       == Flatten([i \in DOMAIN entries |-> entries[i].compactText])
        exactMatchStart   == IndexOfText(combinedText, normalizedQuote, 0)
        exactMatchEnd     == exactMatchStart + Len(normalizedQuote)
        compactQuote      == removeWhitespace(normalizedQuote)
        compactMatchStart == IndexOfText(compactText, compactQuote, 0)
        compactMatchEnd   == compactMatchStart + Len(compactQuote)
        tokens            == extractSignificantTokens(normalizedQuote)
    IN  IF normalizedQuote = <<>> THEN Found("none", <<>>)
        ELSE IF compactMatchStart >= 0
        THEN Found("compact", SelectSeq(entries, LAMBDA e :
                        e.compactEnd > compactMatchStart /\ e.compactStart < compactMatchEnd))
        ELSE IF exactMatchStart >= 0
        THEN Found("exact", SelectSeq(entries, LAMBDA e :
                        e.end > exactMatchStart /\ e.start < exactMatchEnd))
        ELSE IF tokens = <<>> THEN Found("tokens", <<>>)
        ELSE Found("tokens", TokenMatches(entries, compactText, tokens))

\* findMatchingEntries
findMatchingEntries(entries, normalizedQuote) ==
    LET combinedText      == JoinWith([i \in DOMAIN entries |-> entries[i].text], <<" ">>)
        compactText       == Flatten([i \in DOMAIN entries |-> entries[i].compactText])
        exactMatchStart   == IndexOfText(combinedText, normalizedQuote, 0)
        exactMatchEnd     == exactMatchStart + Len(normalizedQuote)
        compactQuote      == removeWhitespace(normalizedQuote)
        compactMatchStart == IndexOfText(compactText, compactQuote, 0)
        compactMatchEnd   == compactMatchStart + Len(compactQuote)
        tokens            == extractSignificantTokens(normalizedQuote)
    IN  IF normalizedQuote = <<>> THEN Found("none", <<>>)
        ELSE IF exactMatchStart >= 0
        THEN Found("exact", SelectSeq(entries, LAMBDA e :
                        e.end > exactMatchStart /\ e.start < exactMatchEnd))
        ELSE IF compactMatchStart >= 0
        THEN Found("compact", SelectSeq(entries, LAMBDA e :
                        e.compactEnd > compactMatchStart /\ e.compactStart < compactMatchEnd))
        ELSE IF tokens = <<>> THEN Found("tokens", <<>>)
        ELSE Found("tokens", TokenMatches(entries, compactText, tokens))

\* the text contents of the spans of a text layer
SpanTexts ==
    { Chars("the baseline impro"), Chars("ves by 15%"), Chars("The  baseline"),
      Chars("improves by 15%"), Chars("the base"), Chars("line improves"),
      Chars("by"), Chars("15%"), Chars(" ") }

\* the quotes of evidence items
QuoteTexts ==
    { Chars("the baseline improves by 15%"), Chars("The baseline  improves"),
      Chars("baseline improves by 20%"), Chars("Baseline"), Chars("by 15%"),
      Chars("by 20%") }

\* buildHighlightForQuote from its call of collectSpanEntries to the return
\* of findMatchingEntries, on a text layer with entries and, as highlightQuote
\* lets through, a quote that is not blank
LocateCall ==
    /\ probe = None
    /\ \E spans \in Strings(SpanTexts, MaxSpans), quote \in QuoteTexts :
          LET entries         == collectSpanEntries(spans)
              normalizedQuote == Lowered(normalizeWS(quote))
          IN  /\ entries # <<>>
              /\ probe' = [op |-> "findMatchingEntries", spans |-> spans,
                           entries |-> entries, quote |-> normalizedQuote,
                           out |-> findMatchingEntries(entries, normalizedQuote)]
    /\ UNCHANGED pipeline

\* what the viewer shows of a page when buildHighlightForQuote looks: the
\* container, the page element and its text layer, there or not, the text
\* contents of the spans, and which rectangles have a size
Missing(what) == [root |-> what # "root", page |-> what \notin {"root", "page"},
                  textLayer |-> FALSE, spans |-> <<>>, pageShown |-> FALSE,
                  hidden |-> {}]

Populated(spans, pageShown, hidden) ==
    [root |-> TRUE, page |-> TRUE, textLayer |-> TRUE, spans |-> spans,
     pageShown |-> pageShown, hidden |-> hidden]

Doms ==
    {Missing(what) : what \in {"root", "page", "textLayer"}}
    \cup {Populated(spans, FALSE, {}) : spans \in Strings(SpanTexts, MaxLayer)}
    \cup UNION {{Populated(spans, TRUE, {}), Populated(spans, TRUE, {1}),
                 Populated(spans, TRUE, 1..Len(spans))} :
                spans \in Strings(SpanTexts, MaxLayer)}

\* buildScaledPositionFromEntries (lines 730-776): whether it returns a
\* position, that is, the page has a size and so has the rectangle of one of
\* the entries
HasPosition(entries, dom) ==
    /\ entries # <<>>
    /\ dom.pageShown
    /\ \E i \in DOMAIN entries : entries[i].span \notin dom.hidden

\* buildHighlightForQuote asking for another attempt when nothing matches
buildHighlightForQuote_RetryUnmatched(dom, quote) ==
    IF ~dom.root \/ ~dom.page \/ ~dom.textLayer THEN "retry"
    ELSE LET entries == collectSpanEntries(dom.spans)
             matchingEntries ==
                 findMatchingEntries(entries, Lowered(normalizeWS(quote))).entries
         IN  IF entries = <<>> THEN "retry"
             ELSE IF matchingEntries = <<>> THEN "retry"
             ELSE IF ~HasPosition(matchingEntries, dom) THEN "not_found"
             ELSE "ready"

\* buildHighlightForQuote: the status of its result
buildHighlightForQuote(dom, quote) ==
    IF ~dom.root \/ ~dom.page \/ ~dom.textLayer THEN "retry"
    ELSE LET entries == collectSpanEntries(dom.spans)
             matchingEntries ==
                 findMatchingEntries(entries, Lowered(normalizeWS(quote))).entries
         IN  IF entries = <<>> THEN "retry"
             ELSE IF matchingEntries = <<>> THEN "not_found"
             ELSE IF ~HasPosition(matchingEntries, dom) THEN "not_found"
             ELSE "ready"

\* one run of runAttempt(n) for a quote on page 1, with no highlight active
\* and no timer pending
AttemptCall ==
    /\ probe = None
    /\ \E dom \in Doms, quote \in QuoteTexts, n \in {0, HIGHLIGHT_MAX_ATTEMPTS - 1,
                                                     HIGHLIGHT_MAX_ATTEMPTS} :
          LET status == buildHighlightForQuote(dom, quote)
              before == [active |-> <<>>, timers |-> {}, attempts |-> n]
          IN  probe' = [op |-> "runAttempt", dom |-> dom, quote |-> quote, n |-> n,
                        status |-> status,
                        after |-> runAttempt(before, Request(1, quote, FALSE), n, status)]
    /\ UNCHANGED pipeline

\* the strings of the text items of a page (item.str of getTextContent)
ItemTexts == {Chars("Ab c"), Chars("d  E"), Chars("15%"), Chars("ΟΣΟΣ"), Chars(" ")}

\* extractPagesText lines 558-569: the text of a page
PageTextOf(items) == JoinWith(items, <<" ">>)

\* the quotes a model can copy out of a page text
CopiedFrom(text) == {SubSeq(text, i, j) : i \in 1..Len(text), j \in 1..Len(text)}

\* a quote that verifyQuote accepted for page 1, whose text was extracted from
\* the items, is looked for on the text layer whose spans are those items
VerifiedQuoteCall ==
    /\ probe = None
    /\ \E items \in Strings(ItemTexts, MaxLayer) :
       \E quote \in CopiedFrom(PageTextOf(items)) :
          LET pages           == Arr(<<Page(1, PageTextOf(items))>>)
              entries         == collectSpanEntries(items)
              normalizedQuote == Lowered(normalizeWS(quote))
          IN  /\ normalizeWS(quote) # <<>>
              /\ verifyQuote(pages, Num(1), Str(quote))
              /\ entries # <<>>
              /\ probe' = [op |-> "locateVerified", spans |-> items,
                           entries |-> entries, quote |-> normalizedQuote,
                           out |-> findMatchingEntries(entries, normalizedQuote)]
    /\ UNCHANGED pipeline

LocatorNext == LocateCall \/ AttemptCall \/ VerifiedQuoteCall

LocatorSpec == Init /\ [][LocatorNext]_vars

(***************************************************************************)
(* askQuestion on its own: one call, with the configuration there or not   *)
(* and the exchange with the function drawn from small sets.               *)
(***************************************************************************)
CONFIGURATION_MESSAGE ==
    <<"App configuration is incomplete. Set NEXT_PUBLIC_SUPABASE_URL and NEXT_PUBLIC_SUPABASE_ANON_KEY.">>

\* the values a server may put in the error property of its body
ErrorValues ==
    {Str(<<"boom">>), Str(<<" ", "boom", "\n">>), Str(<<>>), Str(<<" ", "\t">>),
     Num(5), Null, Obj([message |-> Str(<<"boom">>)])}

\* the bodies a response may carry: none that parses, values of any shape,
\* and objects with an error property
ResponseBodies ==
    {Unparsable, Str(<<"boom">>), Obj([detail |-> Str(<<"boom">>)])}
    \cup ShapelessValues
    \cup {Obj([error |-> e]) : e \in ErrorValues}
    \cup {Answer(Arr(<<ItemGood>>), a, c, m) :
            a \in {Arr(<<>>), Undef, Str(<<"none">>)},
            c \in Confidences \cup {Str(<<"low">>)}, m \in MissingInfos}

ResponseStatuses == {200, 201, 299, 300, 400, 404, 500, 502}

\* how the fetch of askQuestion ends
Exchanges ==
    {[kind |-> "reject"]}
    \cup {[kind |-> "response", status |-> s, body |-> b] :
            s \in ResponseStatuses, b \in ResponseBodies}

\* askQuestion lines 56-125: what it resolves with, or the message of the
\* Error it rejects with
askQuestionCall(configured, exchange) ==
    IF ~configured THEN Throw(CONFIGURATION_MESSAGE)
    ELSE IF exchange.kind = "reject" THEN Throw(DEFAULT_ERROR_MESSAGE)
    ELSE askQuestion([status |-> exchange.status, body |-> exchange.body])

\* one call of askQuestion
AskQuestionCall ==
    /\ probe = None
    /\ \E configured \in BOOLEAN, exchange \in Exchanges :
          probe' = [op |-> "askQuestion", configured |-> configured,
                    exchange |-> exchange,
                    out |-> askQuestionCall(configured, exchange)]
    /\ UNCHANGED pipeline

ClientNext == AskQuestionCall

ClientSpec == Init /\ [][ClientNext]_vars

TruncatedCalled == probe # None /\ probe.op = "looksLikeTruncatedJson"

\* C21 (as claimed): looksLikeTruncatedJson returns true whenever the model
\* output, trailing whitespace aside, does not end with a closing brace, and
\* whenever its numbers of opening and closing braces differ.
C21_TruncationFlagged ==
    TruncatedCalled =>
        LET output == DropTrailingWhitespace(probe.raw)
        IN  \/ At(output, Len(output)) # "}"
            \/ Matches(probe.raw, "{") # Matches(probe.raw, "}")
            => probe.out

(***************************************************************************)
(* Properties of the page and the viewer.                                  *)
(***************************************************************************)
\* the step settles the i-th unsettled request of handleAsk
Settles(i) == i \in DOMAIN asks /\ asks' = Without(asks, i)

\* pagesText holds page texts
HasPageTexts == pagesText # Null /\ Len(pagesText.v) # 0

\* C22: a response to a question asked before the document was replaced is
\* never stored in response and starts no auto-highlight when it arrives, and
\* a response that is not null always comes from a request whose captured
\* version is the current documentVersion.
C22_StaleAnswerDiscarded ==
    /\ [](response # Null => response.v.version = documentVersion)
    /\ [][\A i \in DOMAIN asks :
            Settles(i) /\ IsStale(asks[i]) =>
                /\ response' = response
                /\ frames' = frames
                /\ activeHighlights' = activeHighlights
                /\ pendingHighlightTimers' = pendingHighlightTimers]_vars

\* C22 witness: the response of a request made for an earlier document has
\* arrived, and the text of the document chosen since is in pagesText.
C22_Witness ==
    /\ "stale response" \in seen
    /\ asks = <<>>
    /\ response = Null
    /\ HasPageTexts

\* C23 (as claimed): a request whose captured version differs from the current
\* documentVersion does not set askError when it fails.
C23_StaleFailureDropped ==
    [][\A i \in DOMAIN asks :
            Settles(i) /\ IsStale(asks[i]) => askError' = askError]_vars

C25_OneRequestAtATime ==
    /\ [](Len(asks) <= 1 /\ (loading <=> asks # <<>>))
    /\ [][Len(asks') > Len(asks) =>
            ~loading /\ Trim(question) # <<>> /\ HasPageTexts]_vars

\* C25 witness: a request is unsettled while the question box holds a question
\* and pagesText holds page texts, so that only loading holds handleAsk back.
C25_Witness ==
    /\ Len(asks) = 1
    /\ loading
    /\ Trim(question) # <<>>
    /\ HasPageTexts

\* C26 (as claimed): no highlight requested before the highlights were
\* cleared or the document was replaced is in activeHighlights afterwards.
C26_NoHighlightAfterClear ==
    \A i \in DOMAIN activeHighlights : ~activeHighlights[i].stale

\* C27: activeHighlights holds at most one highlight, at most one retry timer
\* is pending, and neither a pending timer nor the active highlight is from
\* a call of highlightQuote that a later call with a non-blank quote followed.
C27_OneHighlightOneTimer ==
    /\ Len(activeHighlights) <= 1
    /\ Cardinality(pendingHighlightTimers) <= 1
    /\ \A t \in pendingHighlightTimers : ~t.superseded
    /\ \A i \in DOMAIN activeHighlights : ~activeHighlights[i].superseded

\* C27 witness: highlightQuote was called while a retry of an earlier call was
\* pending, and the highlight of page 2 is the active one.
C27_Witness ==
    /\ "overlap" \in seen
    /\ Len(activeHighlights) = 1
    /\ activeHighlights[1].page = 2
    /\ pendingHighlightTimers = {}

\* C28 (as claimed): one call of highlightQuote makes at most
\* HIGHLIGHT_MAX_ATTEMPTS attempts to build the highlight.
C28_AtMostMaxAttempts == attempts <= HIGHLIGHT_MAX_ATTEMPTS

(***************************************************************************)
(* Properties of the locator.                                              *)
(***************************************************************************)
LocateCalled == probe # None /\ probe.op = "findMatchingEntries"

\* the offsets at which part occurs in text
OccursAt(text, part) ==
    {i \in 0..(Len(text) - Len(part)) : SubSeq(text, i + 1, i + Len(part)) = part}

\* the texts of the entries joined by single spaces
SpaceJoined(entries) == JoinWith([i \in DOMAIN entries |-> entries[i].text], <<" ">>)

\* the texts of the entries without any whitespace, one after the other
Squeezed(entries) ==
    Flatten([i \in DOMAIN entries |-> SelectSeq(entries[i].text, LAMBDA c : c \notin Whitespace)])

\* the entries i and i + 1 carry the quote between them, cut inside a word
SplitInWord(entries, i, quote) ==
    /\ i + 1 \in DOMAIN entries
    /\ entries[i].text \o entries[i + 1].text = quote
    /\ quote[Len(entries[i].text)] \in Alphanumeric
    /\ quote[Len(entries[i].text) + 1] \in Alphanumeric

\* C29: when a quote is cut inside a word between two adjacent spans, the
\* space-joined text of the page does not contain it and the page holds it
\* nowhere else, findMatchingEntries returns exactly those two spans, and
\* returns them from its compact stage.
C29_SplitQuoteFoundCompact ==
    LocateCalled =>
        \A i \in DOMAIN probe.entries :
            /\ SplitInWord(probe.entries, i, probe.quote)
            /\ OccursAt(SpaceJoined(probe.entries), probe.quote) = {}
            /\ Cardinality(OccursAt(Squeezed(probe.entries),
                                    SelectSeq(probe.quote, LAMBDA c : c \notin Whitespace))) = 1
            => /\ probe.out.stage = "compact"
               /\ probe.out.entries = <<probe.entries[i], probe.entries[i + 1]>>

\* C29 witness: the quote "the baseline improves by 15%" on a text layer whose
\* spans are "the baseline impro" and "ves by 15%", both spans returned.
C29_Witness ==
    /\ LocateCalled
    /\ probe.spans = <<Chars("the baseline impro"), Chars("ves by 15%")>>
    /\ probe.quote = Chars("the baseline improves by 15%")
    /\ probe.out.stage = "compact"
    /\ Len(probe.out.entries) = 2

\* the entries whose range [lo, hi) of offsets meets [from, from + length)
Meeting(entries, Lo(_), Hi(_), from, length) ==
    SelectSeq(entries, LAMBDA e : Hi(e) > from /\ Lo(e) < from + length)

\* C30: findMatchingEntries applies its stages in strict priority. When the
\* normalized quote occurs in the space-joined text it returns exactly the
\* entries whose [start, end) meets the first occurrence; it returns from the
\* compact stage only when the quote does not occur there, and then the
\* entries whose compact range meets the first occurrence of the quote
\* without whitespace in the compact text; it returns from the token
\* fallback only when neither occurs.
C30_StagesInPriorityOrder ==
    LocateCalled =>
        LET exactAt      == OccursAt(SpaceJoined(probe.entries), probe.quote)
            compactQuote == SelectSeq(probe.quote, LAMBDA c : c \notin Whitespace)
            compactAt    == OccursAt(Squeezed(probe.entries), compactQuote)
        IN  /\ exactAt # {} =>
                /\ probe.out.stage = "exact"
                /\ probe.out.entries =
                       Meeting(probe.entries, LAMBDA e : e.start, LAMBDA e : e.end,
                               Least(exactAt), Len(probe.quote))
            /\ probe.out.stage = "compact" =>
                /\ exactAt = {}
                /\ compactAt # {}
                /\ probe.out.entries =
                       Meeting(probe.entries, LAMBDA e : e.compactStart,
                               LAMBDA e : e.compactEnd, Least(compactAt), Len(compactQuote))
            /\ probe.out.stage = "tokens" => exactAt = {} /\ compactAt = {}
            /\ probe.out.stage \in {"exact", "compact", "tokens"}

\* C30 witness: the exact stage returned its entries on a page where the
\* compact stage would have returned others, the quote without whitespace
\* occurring earlier in the compact text.
C30_Witness ==
    /\ LocateCalled
    /\ probe.out.stage = "exact"
    /\ LET compactQuote == SelectSeq(probe.quote, LAMBDA c : c \notin Whitespace)
           compactAt    == OccursAt(Squeezed(probe.entries), compactQuote)
       IN  probe.out.entries #
               Meeting(probe.entries, LAMBDA e : e.compactStart,
                       LAMBDA e : e.compactEnd, Least(compactAt), Len(compactQuote))

\* the places in the page's entries of the entries findMatchingEntries returned
Selected == {i \in DOMAIN probe.entries : probe.entries[i] \in Range(probe.out.entries)}

\* C31 (as claimed): the entries findMatchingEntries returns form a contiguous
\* run of the page's entries: no entry between the first and the last
\* selected one is left out.
C31_SelectionContiguous ==
    LocateCalled =>
        \A i \in Selected : \A k \in Selected : \A j \in i..k : j \in Selected

AttemptCalled == probe # None /\ probe.op = "runAttempt"

\* the text layer of the page is there and has a span that is not blank
HasText(dom) ==
    /\ dom.root /\ dom.page /\ dom.textLayer
    /\ \E i \in DOMAIN dom.spans : \E j \in DOMAIN dom.spans[i] : dom.spans[i][j] \notin Whitespace

\* C32: buildHighlightForQuote returns retry exactly when the container, the
\* page element or the text layer is missing or the text layer has no span
\* that is not blank; on a text layer with text it returns not_found when no
\* stage selects a span; and runAttempt sets a retry timer only for a retry
\* result, never for not_found.
C32_RetryOnlyWhenNotReady ==
    AttemptCalled =>
        /\ probe.status = "retry" <=> ~HasText(probe.dom)
        /\ /\ HasText(probe.dom)
           /\ findMatchingEntries(collectSpanEntries(probe.dom.spans),
                                  Lowered(normalizeWS(probe.quote))).entries = <<>>
           => probe.status = "not_found"
        /\ probe.after.timers # {} => probe.status = "retry"
        /\ probe.status = "not_found" =>
               probe.after.timers = {} /\ probe.after.active = <<>>

\* C32 witness: on a text layer with text no stage selected a span, the
\* result was not_found and no timer was set although attempts were left.
C32_Witness ==
    /\ AttemptCalled
    /\ HasText(probe.dom)
    /\ probe.dom.pageShown /\ probe.dom.hidden = {}
    /\ probe.status = "not_found"
    /\ probe.n = 0
    /\ probe.after.timers = {}

(***************************************************************************)
(* Further properties of the request pipeline.                             *)
(***************************************************************************)
\* maxEvidence as the handler that serves the request reads it: ask-doc takes
\* the body's value, 3 when there is none (line 448); ask-openAI clamps it
\* into 1..8 (line 421)
MaxEvidenceOfRequest ==
    IF fn = "ask-openAI" THEN RequestCap
    ELSE IF Get(req.body, "maxEvidence") = Undef THEN DefaultMaxEvidence
    ELSE Get(req.body, "maxEvidence").v

\* C33 (as claimed): every 200 response carries at most maxEvidence
\* evidence_for items and at most maxEvidence evidence_against items, in
\* ask-doc and in ask-openAI.
C33_EvidenceCapped ==
    (Responded /\ resp.status = 200) =>
        /\ Len(Get(resp.body, "evidence_for").v) <= MaxEvidenceOfRequest
        /\ Len(Get(resp.body, "evidence_against").v) <= MaxEvidenceOfRequest

\* the same of the responses of ask-openAI alone
C33_EvidenceCappedOpenAI ==
    (Responded /\ resp.status = 200 /\ fn = "ask-openAI") =>
        /\ Len(Get(resp.body, "evidence_for").v) <= MaxEvidenceOfRequest
        /\ Len(Get(resp.body, "evidence_against").v) <= MaxEvidenceOfRequest

\* the replies of the model to attempt from of callGemini, with savedErr the
\* parse error kept so far, after which the call goes on to attempt n
FollowedBy(from, savedErr, n) ==
    {reply \in GeminiReplies :
        LET step == callGeminiStep(from, savedErr, reply)
        IN  step.k = "await" /\ step.attempt = n}

\* the same for each attempt that saved no error, computed once
FollowedByTable == [from \in 1..3 |-> [n \in 1..3 |-> FollowedBy(from, NoError, n)]]

\* the replies of the model to the attempt now awaited after which the call
\* goes on to attempt n
LeadingTo(n) ==
    IF parseErr = NoError /\ attempt \in 1..3 /\ n \in 1..3
    THEN FollowedByTable[attempt][n]
    ELSE FollowedBy(attempt, parseErr, n)

\* a further model invocation of the running call is issued
FurtherAttempt == pc = "await" /\ pc' = "await" /\ call' = call /\ attempt' # attempt

\* C34: one handled request makes at most six model invocations, in at most
\* two calls of at most three attempts each; the first attempt of a call has
\* the budget 4096 and every further attempt of the call a larger one of
\* 8192 and 12288; in callGemini the attempt with 12288 follows only a
\* response that stopped at MAX_TOKENS and failed to parse, and a first
\* attempt that returned no text is followed by no further attempt.
C34_InvocationsBounded ==
    /\ [](/\ invocations <= 6
          /\ Len(strictLog) <= 2
          /\ attempt <= 3
          /\ pc = "await" =>
                /\ budget \in {4096, 8192, 12288}
                /\ attempt = 1 <=> budget = 4096)
    /\ [][/\ (pc' = "await" /\ (pc # "await" \/ call' # call)) =>
                attempt' = 1 /\ budget' = 4096
          /\ FurtherAttempt => budget' > budget
          /\ (FurtherAttempt /\ fn = "ask-doc" /\ budget' = 12288) =>
                \A reply \in LeadingTo(3) :
                    /\ reply.kind = "response"
                    /\ reply.text.present
                    /\ reply.text.json.threw
                    /\ reply.finishReason = "MAX_TOKENS"
          /\ (FurtherAttempt /\ fn = "ask-doc" /\ attempt = 1) =>
                \A reply \in LeadingTo(attempt') :
                    reply.kind = "response" /\ reply.text.present]_vars

\* C34 witness: a request for which six model invocations were issued, the
\* strict call of ask-doc awaiting its attempt with 12288.
C34_Witness ==
    /\ fn = "ask-doc"
    /\ invocations = 6
    /\ call = 2
    /\ attempt = 3
    /\ budget = 12288

\* the first pass of ask-doc returned a value of the basic shape whose
\* evidence_for is the empty array
FirstPassEmpty == fn = "ask-doc" /\ first.shaped /\ first.empty

\* C35 (as claimed): in ask-doc a first-pass response whose evidence_for is
\* the empty array is accepted as final: no strict call is issued, and the
\* response is the 200 Answer with evidence_for = [].
C35_EmptyEvidenceAccepted ==
    FirstPassEmpty =>
        /\ strictLog = <<FALSE>>
        /\ Responded
        /\ resp.status = 200
        /\ Get(resp.body, "evidence_for") = Arr(<<>>)

\* the same of the first passes whose evidence_against is missing, null or an
\* array of items
C35_EmptyEvidenceAcceptedWhenAgainstFilters ==
    FirstPassEmpty /\ first.againstFilters
    => /\ strictLog = <<FALSE>>
       /\ Responded
       /\ resp.status = 200
       /\ Get(resp.body, "evidence_for") = Arr(<<>>)

VerifiedQuoteLocated == probe # None /\ probe.op = "locateVerified"

C36_VerifiedQuoteFoundExactOneCase ==
    VerifiedQuoteLocated /\ "σ" \notin Range(probe.quote) /\ "ς" \notin Range(probe.quote) =>
        probe.out.stage = "exact" /\ probe.out.entries # <<>>

(***************************************************************************)
(* Further properties of the page and the viewer.                          *)
(***************************************************************************)
\* the step is a call of highlightQuote with a blank quote, by the
\* animation-frame callback of handleAsk or by a click on an evidence card
BlankQuoteCall ==
    \/ \E i \in DOMAIN frames :
          frames' = Without(frames, i) /\ normalizeWS(frames[i].quote) = <<>>
    \/ "blank quote" \in seen' /\ "blank quote" \notin seen

\* C37: highlightQuote called with an empty or whitespace-only quote leaves
\* activeHighlights and the pending retry timers exactly as they were.
C37_BlankQuoteChangesNothing ==
    [][BlankQuoteCall =>
          /\ activeHighlights' = activeHighlights
          /\ pendingHighlightTimers' = pendingHighlightTimers]_vars

\* C37 witness: highlightQuote was called with a blank quote while a highlight
\* was active, and a highlight is active.
C37_Witness == "blank quote" \in seen /\ Len(activeHighlights) = 1

\* C38: every handleAsk that set loading to true sets it to false when its
\* request settles, with a response, with a failure or with a response
\* dropped as stale, and once no request is unsettled a question can be asked
\* as soon as the question box and pagesText hold something.
C38_LoadingAlwaysReset ==
    /\ [][\A i \in DOMAIN asks : Settles(i) => loading /\ ~loading']_vars
    /\ [](asks = <<>> /\ Trim(question) # <<>> /\ HasPageTexts => CanAsk)

\* C38 witness: a response arrived for a replaced document and was dropped,
\* no request is unsettled and the next question can be asked.
C38_Witness ==
    /\ "stale response" \in seen
    /\ asks = <<>>
    /\ ~loading
    /\ CanAsk

(***************************************************************************)
(* Properties of askQuestion.                                              *)
(***************************************************************************)
AskQuestionCalled == probe # None /\ probe.op = "askQuestion"

\* the body of the response as a parsed value, null when it does not parse
ParsedBody(exchange) == IF exchange.body.t = "unparsable" THEN Null ELSE JsonWire(exchange.body)

\* the error string of the server is missing, not a string, or blank
NoErrorString(exchange) ==
    LET raw == Get(ParsedBody(exchange), "error")
    IN  ~IsString(raw) \/ \A i \in DOMAIN raw.v : raw.v[i] \in Whitespace

\* C39: askQuestion resolves only with the body of a response whose status is
\* 2xx and for which isQaResponse holds; after a fetch failure, a status that
\* is not 2xx, a body that does not parse or a value of another shape it
\* rejects with an Error whose message is not empty, and with the default
\* message when the status is not 2xx and the server's error string is
\* missing, not a string, or blank.
C39_ResolvesOnlyValidAnswers ==
    AskQuestionCalled =>
        LET exchange == probe.exchange
            answered == /\ probe.configured
                        /\ exchange.kind = "response"
                        /\ exchange.status \in 200..299
                        /\ exchange.body.t # "unparsable"
                        /\ isQaResponse(ParsedBody(exchange))
        IN  /\ ~probe.out.threw <=> answered
            /\ ~probe.out.threw => probe.out.value = ParsedBody(exchange)
            /\ probe.out.threw =>
                   \E i \in DOMAIN probe.out.err : probe.out.err[i] \notin Whitespace
            /\ /\ probe.configured
               /\ exchange.kind = "response"
               /\ exchange.status \notin 200..299
               /\ NoErrorString(exchange)
               => probe.out.threw /\ probe.out.err = DEFAULT_ERROR_MESSAGE

\* C39 witness: a 500 whose error string is blank, rejected with the default
\* message.
C39_Witness ==
    /\ AskQuestionCalled
    /\ probe.configured
    /\ probe.exchange.kind = "response"
    /\ probe.exchange.status = 500
    /\ probe.exchange.body = Obj([error |-> Str(<<" ", "\t">>)])
    /\ probe.out.threw
    /\ probe.out.err = DEFAULT_ERROR_MESSAGE

=============================================================================
